---- MODULE Spec2Model ----
(***************************************************************************)
(* HgRepositoryClient: the client-side cache of Mercurial file statuses,   *)
(* diff info and the debounced, serialized refreshes that keep it current. *)
(* Paths are sequences of path components; a JavaScript object or Map used *)
(* as a cache is a function whose domain is the set of its keys.           *)
(***************************************************************************)
EXTENDS Integers, Sequences, FiniteSets, TLC

\* ------------------------------------------------------------- bounds
MaxNotifications == 3
MaxRepoStateChanges == 1
MaxBackendChanges == 1
MaxGetStatuses == 1
MaxFailures == 1
MaxStatusNotifications == 1
MaxDiffTriggers == 3
MaxSessionTriggers == 2
MaxRefreshTriggers == 3
MaxBookmarkTriggers == 3

\* ------------------------------------------------- program constants
MAX_INDIVIDUAL_CHANGED_PATHS == 1

\* -------------------------------------------------------------- paths
ProjectDirectory == <<"proj">>
FileA == <<"proj", "a">>
FileB == <<"proj", "d", "b">>
Outside == <<"other", "x">>
RelevantFiles == {FileA, FileB}
NotifiedPaths == {FileA, FileB, Outside}
PathOrder == <<FileA, FileB, Outside, ProjectDirectory>>

IsPrefix(d, p) == Len(d) <= Len(p) /\ SubSeq(p, 1, Len(d)) = d
\* atom Directory.contains: the path lies strictly inside the directory
DirectoryContains(d, p) == Len(d) < Len(p) /\ IsPrefix(d, p)
\* atom Directory.getParent().getPath()
GetParent(d) == SubSeq(d, 1, Len(d) - 1)

Range(q) == {q[i] : i \in 1..Len(q)}
SeqOfSet(S) == SelectSeq(PathOrder, LAMBDA p : p \in S)
Delete(f, k) == [x \in DOMAIN f \ {k} |-> f[x]]
Put(f, k, v) == [x \in DOMAIN f \cup {k} |-> IF x = k THEN v ELSE f[x]]
EmptyMap == [x \in {} |-> 0]
Count(q, x) == Cardinality({i \in 1..Len(q) : q[i] = x})

\* ----------------------------------------------------- status codes
CLEAN == "C"
MODIFIED == "M"
ADDED == "A"
UNTRACKED == "?"
IGNORED == "I"
MISSING == "!"
REMOVED == "R"
StatusCodeId == {CLEAN, MODIFIED, ADDED, UNTRACKED, IGNORED, MISSING, REMOVED}
StatusCodeIdToNumber(id) ==
  CASE id = ADDED -> 1 [] id = CLEAN -> 2 [] id = IGNORED -> 3
    [] id = MODIFIED -> 4 [] id = MISSING -> 5 [] id = REMOVED -> 6
    [] id = UNTRACKED -> 7
StatusCodeNumberCLEAN == StatusCodeIdToNumber(CLEAN)
StatusCodeNumberMODIFIED == StatusCodeIdToNumber(MODIFIED)

ONLY_NON_IGNORED == "ONLY_NON_IGNORED"
ONLY_IGNORED == "ONLY_IGNORED"
ALL_STATUSES == "ALL_STATUSES"
NoOptions == "null"
HgStatusOption == {ONLY_NON_IGNORED, ONLY_IGNORED, ALL_STATUSES}

\* the file does not exist in the working directory
NoFile == "none"
\* what the backend can truly hold for a file
TrueStatuses == {CLEAN, MODIFIED, ADDED, IGNORED, NoFile}

filterForOnlyNotIgnored(code) == code # IGNORED
filterForOnlyIgnored(code) == code = IGNORED
filterForAllStatues(code) == TRUE

getStatusOption(options) == options

\* variant: cached statuses are always filtered as only-non-ignored
getPredicateIgnoringOptions(options, code) == filterForOnlyNotIgnored(code)

getPredicateForRelevantStatuses(options, code) ==
  IF getStatusOption(options) = ONLY_IGNORED THEN filterForOnlyIgnored(code)
  ELSE IF getStatusOption(options) = ALL_STATUSES THEN filterForAllStatues(code)
  ELSE filterForOnlyNotIgnored(code)

\* variant: every path counts as relevant
isPathRelevantAlways(filePath) == TRUE

isPathRelevant(filePath) ==
  DirectoryContains(ProjectDirectory, filePath) \/ ProjectDirectory = filePath

\* ------------------------------------------------ backend (HgService)
\* hg status: --all lists every existing file, --ignored the ignored ones,
\* the default the files that are neither clean nor ignored
BackendLists(options, code) ==
  /\ code # NoFile
  /\ IF options = ALL_STATUSES THEN TRUE
     ELSE IF options = ONLY_IGNORED THEN code = IGNORED
     ELSE code \notin {CLEAN, IGNORED}

fetchStatuses(tr, paths, options) ==
  LET listed == {f \in RelevantFiles :
                   /\ \E i \in 1..Len(paths) : IsPrefix(paths[i], f)
                   /\ BackendLists(options, tr[f])}
  IN [f \in listed |-> tr[f]]

\* ------------------------------------- modified-directory index (utils)
ParentDirectories(filePath, prefixToSkip) ==
  {SubSeq(filePath, 1, n) : n \in (Len(prefixToSkip) + 1)..(Len(filePath) - 1)}

addAllParentDirectoriesToCache(cache, filePath, prefixToSkip) ==
  LET parents == ParentDirectories(filePath, prefixToSkip)
  IN [d \in DOMAIN cache \cup parents |->
        IF d \in parents
        THEN (IF d \in DOMAIN cache THEN cache[d] ELSE 0) + 1
        ELSE cache[d]]

removeAllParentDirectoriesFromCache(cache, filePath, prefixToSkip) ==
  LET parents == ParentDirectories(filePath, prefixToSkip)
      gone == {d \in parents \cap DOMAIN cache : cache[d] <= 1}
  IN [d \in DOMAIN cache \ gone |->
        IF d \in parents THEN cache[d] - 1 ELSE cache[d]]


\* ------------------------------------------------------------- state
VARIABLES
  truth,                     \* backend: the true status of every file
  hgStatusCache,             \* _hgStatusCache
  modifiedDirectoryCache,    \* _modifiedDirectoryCache
  hgDiffCache,               \* _hgDiffCache
  hgDiffCacheFilesUpdating,  \* _hgDiffCacheFilesUpdating
  hgDiffCacheFilesToClear,   \* _hgDiffCacheFilesToClear
  editorSubscriptions,       \* keys of _editorSubscriptions
  isDestroyed,               \* _isDestroyed
  subscriptionsDisposed,     \* _subscriptions (emitter, service, observers) disposed
  revisionIdToFileChanges,   \* the LRU _revisionIdToFileChanges: changes per revision
  fileContentsAtRevisionIds, \* the LRU _fileContentsAtRevisionIds: per revision,
                             \* the contents per path
  revisionCalls,             \* outstanding backend calls about revisions
  lastLookup,                \* history: the revision lookup of the last handler
  activeBookmark,            \* _activeBookmark
  bookmarkFetches,           \* outstanding fetchActiveBookmark calls of the service
  lastShortHead,             \* history: the getShortHead call of the last handler
  toUpdateChangedPaths,      \* the pending buffer of onFilesChanges
  changedPathsTimer,         \* debounce timer of serializedUpdateChangedPaths armed
  changedPathsScheduled,     \* its serializeAsyncCall has a call scheduled
  changedPathsCall,          \* the _updateChangedPaths execution in flight
  refreshTimer,              \* debounce timer of _serializedRefreshStatusesCache armed
  refreshScheduled,          \* its serializeAsyncCall has a call scheduled
  refreshCall,               \* the _refreshStatusesOfAllFilesInCache execution in flight
  refreshResult,             \* the promise the debounced refresh last returned
  statusFetches,             \* outstanding fetchStatuses calls, in issue order
  diffFetches,               \* outstanding fetchDiffInfo calls
  getStatusesCall,           \* the getStatuses call in flight
  emitted,                   \* events emitted by the last handler, in order
  lastUpdate,                \* history: the _updateStatuses the last handler completed
  lastBatch,                 \* history: the _updateChangedPaths the last handler started
  lastGet,                   \* history: the getStatuses the last handler called or completed
  lastDiff,                  \* history: the _updateDiffInfo the last handler called
  lastRead,                  \* history: what the synchronous getters returned
  lastDestroy,               \* history: the destroy call of the last handler
  tally                      \* history: counters of what has happened

vars == <<truth, hgStatusCache, modifiedDirectoryCache, hgDiffCache,
          hgDiffCacheFilesUpdating, hgDiffCacheFilesToClear, editorSubscriptions,
          toUpdateChangedPaths, changedPathsTimer, changedPathsScheduled,
          changedPathsCall, refreshTimer, refreshScheduled, refreshCall,
          refreshResult, statusFetches, diffFetches, getStatusesCall, emitted,
          lastUpdate, lastBatch, lastGet, lastDiff, lastRead, lastDestroy,
          isDestroyed, subscriptionsDisposed, revisionIdToFileChanges,
          fileContentsAtRevisionIds, revisionCalls, lastLookup, activeBookmark,
          bookmarkFetches, lastShortHead, tally>>

Owners == {"changedPaths", "refresh", "getStatuses"}
IdleCall == [pc |-> "idle", paths |-> <<>>, await |-> "none"]
NoUpdate ==
  [owner |-> "none", options |-> NoOptions, requested |-> <<>>,
   queried |-> {}, reply |-> EmptyMap,
   before |-> EmptyMap, after |-> EmptyMap,
   dirsBefore |-> EmptyMap, dirsAfter |-> EmptyMap,
   events |-> <<>>, observed |-> <<>>, superseded |-> EmptyMap]
IdleGet ==
  [pc |-> "idle", paths |-> <<>>, options |-> NoOptions, statusMap |-> EmptyMap,
   skipped |-> {}]
NoGet ==
  [called |-> FALSE, returned |-> FALSE, paths |-> <<>>, options |-> NoOptions,
   statusMap |-> EmptyMap, skipped |-> {}, result |-> EmptyMap,
   rejected |-> FALSE]
NoDiff ==
  [called |-> FALSE, owner |-> "none", requested |-> <<>>, updating |-> {},
   pathsToFetch |-> <<>>,
   resumed |-> FALSE, fetched |-> <<>>, reply |-> EmptyMap, isNull |-> FALSE,
   toClear |-> {}, observed |-> <<>>, rejected |-> FALSE]
NoLookup ==
  [called |-> FALSE, kind |-> "none", revision |-> "", filePath |-> <<>>,
   hit |-> FALSE, value |-> ""]
NoDestroy == [called |-> FALSE, wasDestroyed |-> FALSE]
NoShortHead ==
  [called |-> FALSE, returned |-> "", fetched |-> FALSE, earlierMisses |-> 0]
NoRead ==
  [called |-> FALSE, path |-> <<>>, pathStatus |-> 0, allPathStatuses |-> EmptyMap,
   directoryStatus |-> 0, diffStats |-> [added |-> 0, deleted |-> 0],
   lineDiffs |-> <<>>]
NoBatch ==
  [cause |-> "none", batch |-> <<>>, owed |-> [p \in NotifiedPaths |-> 0],
   triggers |-> 0, n |-> 0, branch |-> "none"]
ZeroTally ==
  [notifications |-> 0, repoStateChanges |-> 0, backendChanges |-> 0,
   getStatuses |-> 0, failures |-> 0,
   delivered |-> [p \in NotifiedPaths |-> 0],
   processed |-> [p \in NotifiedPaths |-> 0],
   windows |-> 0, runs |-> 0, idleFires |-> 0, busyFires |-> 0, busyRuns |-> 0,
   statusCalls |-> [o \in Owners |-> 0], fullRuns |-> 0,
   saves |-> 0, diffRequests |-> 0, diffCalls |-> 0, commits |-> 0,
   revisionFetches |-> 0, didDestroy |-> 0,
   shortHeadReads |-> 0, shortHeadMisses |-> 0, bookmarkNotifications |-> 0,
   statusFailed |-> FALSE, notifiedSinceFailure |-> FALSE,
   fresh |-> [p \in RelevantFiles |-> FALSE]]

\* the current state as one record, so that a handler is a composition of
\* the functions it calls; the history of the last handler starts empty
Now ==
  [truth |-> truth, hgStatusCache |-> hgStatusCache,
   modifiedDirectoryCache |-> modifiedDirectoryCache, hgDiffCache |-> hgDiffCache,
   hgDiffCacheFilesUpdating |-> hgDiffCacheFilesUpdating,
   hgDiffCacheFilesToClear |-> hgDiffCacheFilesToClear,
   editorSubscriptions |-> editorSubscriptions,
   toUpdateChangedPaths |-> toUpdateChangedPaths,
   changedPathsTimer |-> changedPathsTimer,
   changedPathsScheduled |-> changedPathsScheduled,
   changedPathsCall |-> changedPathsCall, refreshTimer |-> refreshTimer,
   refreshScheduled |-> refreshScheduled, refreshCall |-> refreshCall,
   refreshResult |-> refreshResult, statusFetches |-> statusFetches,
   diffFetches |-> diffFetches, getStatusesCall |-> getStatusesCall,
   emitted |-> <<>>, lastUpdate |-> NoUpdate,
   lastBatch |-> NoBatch, lastGet |-> NoGet, lastDiff |-> NoDiff,
   lastRead |-> NoRead, lastDestroy |-> NoDestroy,
   isDestroyed |-> isDestroyed, subscriptionsDisposed |-> subscriptionsDisposed,
   revisionIdToFileChanges |-> revisionIdToFileChanges,
   fileContentsAtRevisionIds |-> fileContentsAtRevisionIds,
   revisionCalls |-> revisionCalls, lastLookup |-> NoLookup,
   activeBookmark |-> activeBookmark, bookmarkFetches |-> bookmarkFetches,
   lastShortHead |-> NoShortHead, tally |-> tally]

Becomes(s) ==
  /\ truth' = s.truth
  /\ hgStatusCache' = s.hgStatusCache
  /\ modifiedDirectoryCache' = s.modifiedDirectoryCache
  /\ hgDiffCache' = s.hgDiffCache
  /\ hgDiffCacheFilesUpdating' = s.hgDiffCacheFilesUpdating
  /\ hgDiffCacheFilesToClear' = s.hgDiffCacheFilesToClear
  /\ editorSubscriptions' = s.editorSubscriptions
  /\ toUpdateChangedPaths' = s.toUpdateChangedPaths
  /\ changedPathsTimer' = s.changedPathsTimer
  /\ changedPathsScheduled' = s.changedPathsScheduled
  /\ changedPathsCall' = s.changedPathsCall
  /\ refreshTimer' = s.refreshTimer
  /\ refreshScheduled' = s.refreshScheduled
  /\ refreshCall' = s.refreshCall
  /\ refreshResult' = s.refreshResult
  /\ statusFetches' = s.statusFetches
  /\ diffFetches' = s.diffFetches
  /\ getStatusesCall' = s.getStatusesCall
  /\ emitted' = s.emitted
  /\ lastUpdate' = s.lastUpdate
  /\ lastBatch' = s.lastBatch
  /\ lastGet' = s.lastGet
  /\ lastDiff' = s.lastDiff
  /\ lastRead' = s.lastRead
  /\ lastDestroy' = s.lastDestroy
  /\ isDestroyed' = s.isDestroyed
  /\ subscriptionsDisposed' = s.subscriptionsDisposed
  /\ revisionIdToFileChanges' = s.revisionIdToFileChanges
  /\ fileContentsAtRevisionIds' = s.fileContentsAtRevisionIds
  /\ revisionCalls' = s.revisionCalls
  /\ lastLookup' = s.lastLookup
  /\ activeBookmark' = s.activeBookmark
  /\ bookmarkFetches' = s.bookmarkFetches
  /\ lastShortHead' = s.lastShortHead
  /\ tally' = s.tally

\* ------------------------------------------------------------ events
DidChangeStatus(filePath, pathStatus) ==
  [type |-> "did-change-status", path |-> filePath, pathStatus |-> pathStatus]
DidDestroy == [type |-> "did-destroy", path |-> <<>>, pathStatus |-> 0]
DidChangeStatuses ==
  [type |-> "did-change-statuses", path |-> <<>>, pathStatus |-> 0]
DidChangeShortHead ==
  [type |-> "did-change-short-head", path |-> <<>>, pathStatus |-> 0]
Emit(s, event) == [s EXCEPT !.emitted = Append(@, event)]

getCachedPathStatusOf(cache, filePath) ==
  IF filePath \in DOMAIN cache THEN StatusCodeIdToNumber(cache[filePath])
  ELSE StatusCodeNumberCLEAN


\* getDirectoryStatus, on a given directory index
getDirectoryStatusOf(dirs, directoryPath) ==
  IF directoryPath \in DOMAIN dirs THEN StatusCodeNumberMODIFIED
  ELSE StatusCodeNumberCLEAN

\* a null or empty path argument is falsy
NoPath == <<>>

getCachedPathStatus(s, filePath) ==
  IF filePath = NoPath THEN StatusCodeNumberCLEAN
  ELSE getCachedPathStatusOf(s.hgStatusCache, filePath)

getAllPathStatuses(s) ==
  [filePath \in DOMAIN s.hgStatusCache |->
     StatusCodeIdToNumber(s.hgStatusCache[filePath])]

getDirectoryStatus(s, directoryPath) ==
  IF directoryPath = NoPath THEN StatusCodeNumberCLEAN
  ELSE getDirectoryStatusOf(s.modifiedDirectoryCache, directoryPath)

\* variant: every path gets the stats of some cached file
getDiffStatsOfAnyFile(s, filePath) ==
  IF filePath = NoPath \/ DOMAIN s.hgDiffCache = {}
  THEN [added |-> 0, deleted |-> 0]
  ELSE LET cachedData == s.hgDiffCache[CHOOSE f \in DOMAIN s.hgDiffCache : TRUE]
       IN [added |-> cachedData.added, deleted |-> cachedData.deleted]

getDiffStats(s, filePath) ==
  LET cleanStats == [added |-> 0, deleted |-> 0]
  IN IF filePath = NoPath THEN cleanStats
     ELSE IF filePath \in DOMAIN s.hgDiffCache
     THEN [added |-> s.hgDiffCache[filePath].added,
           deleted |-> s.hgDiffCache[filePath].deleted]
     ELSE cleanStats

getLineDiffs(s, filePath) ==
  IF filePath = NoPath THEN <<>>
  ELSE IF filePath \in DOMAIN s.hgDiffCache
  THEN s.hgDiffCache[filePath].lineDiffs
  ELSE <<>>

\* --------------------------------------------------- _updateStatuses
\* the part of _updateStatuses before its await: filter, then ask the backend
updateStatusesCall(s, owner, filePaths, options) ==
  LET pathsInRepo == SelectSeq(filePaths, isPathRelevant)
  IN IF Len(pathsInRepo) = 0
     THEN \* return new Map(): the update is over, nothing fetched or emitted
          [s EXCEPT !.lastUpdate = [NoUpdate EXCEPT !.owner = owner,
                                                    !.options = options,
                                                    !.requested = filePaths]]
     ELSE [s EXCEPT !.statusFetches =
             Append(@, [owner |-> owner, requested |-> filePaths,
                        paths |-> pathsInRepo, options |-> options,
                        reply |-> fetchStatuses(s.truth, pathsInRepo, options),
                        superseded |-> EmptyMap]),
                    !.tally.statusCalls[owner] = @ + 1]

\* variant: every entry of the reply is announced and stored
StatusDiffersAlways(cache, filePath, newStatusId) == TRUE

\* whether an entry of the backend's reply changes the cache (and is announced)
StatusDiffers(cache, filePath, newStatusId) ==
  \/ filePath \in DOMAIN cache /\ cache[filePath] # newStatusId
  \/ filePath \notin DOMAIN cache /\ newStatusId # CLEAN

\* variant: CLEAN is stored like any other status
StoreStatusKeepingClean(cache, filePath, newStatusId) ==
  Put(cache, filePath, newStatusId)

\* what a changed entry does to the status cache
StoreStatus(cache, filePath, newStatusId) ==
  IF newStatusId = CLEAN THEN Delete(cache, filePath)
  ELSE Put(cache, filePath, newStatusId)

\* variant: a changed entry never takes its directories out of the index
StoreDirectoriesAddOnly(dirs, filePath, newStatusId) ==
  IF newStatusId = MODIFIED
  THEN addAllParentDirectoriesToCache(dirs, filePath, GetParent(ProjectDirectory))
  ELSE dirs

\* what a changed entry does to the modified-directory index
StoreDirectories(dirs, filePath, newStatusId) ==
  IF newStatusId = CLEAN
  THEN removeAllParentDirectoriesFromCache(dirs, filePath, GetParent(ProjectDirectory))
  ELSE IF newStatusId = MODIFIED
  THEN addAllParentDirectoriesToCache(dirs, filePath, GetParent(ProjectDirectory))
  ELSE dirs

\* variant: a changed entry is announced at once, before the rest of the
\* update is applied
StatusEntryEmittingEarly(acc, filePath, newStatusId) ==
  LET a == IF StatusDiffers(acc.cache, filePath, newStatusId)
           THEN LET cache == StoreStatus(acc.cache, filePath, newStatusId)
                    dirs == StoreDirectories(acc.dirs, filePath, newStatusId)
                IN [acc EXCEPT
                      !.observed = Append(@,
                         [event |-> DidChangeStatus(filePath,
                                      StatusCodeIdToNumber(newStatusId)),
                          cache |-> cache, dirs |-> dirs]),
                      !.cache = cache, !.dirs = dirs]
           ELSE acc
  IN [a EXCEPT !.queried = @ \ {filePath}]

\* the body of statusMapPathToStatusId.forEach
StatusEntry(acc, filePath, newStatusId) ==
  LET a == IF StatusDiffers(acc.cache, filePath, newStatusId)
           THEN [acc EXCEPT
                   !.events = Append(@, DidChangeStatus(filePath,
                                          StatusCodeIdToNumber(newStatusId))),
                   !.cache = StoreStatus(@, filePath, newStatusId),
                   !.dirs = StoreDirectories(@, filePath, newStatusId)]
           ELSE acc
  IN [a EXCEPT !.queried = @ \ {filePath}]

RECURSIVE ForEachStatus(_, _, _)
ForEachStatus(acc, reply, keys) ==
  IF keys = <<>> THEN acc
  ELSE ForEachStatus(StatusEntry(acc, Head(keys), reply[Head(keys)]),
                     reply, Tail(keys))

\* variant: the default scope evicts like the all-statuses scope
EvictsAlsoIgnored(options, cache, filePath) ==
  IF getStatusOption(options) = ONLY_IGNORED
  THEN filePath \in DOMAIN cache /\ cache[filePath] = IGNORED
  ELSE TRUE

\* variant: the only-ignored scope evicts like the default scope
EvictsUnlessIgnored(options, cache, filePath) ==
  IF getStatusOption(options) = ALL_STATUSES THEN TRUE
  ELSE ~(filePath \in DOMAIN cache /\ cache[filePath] = IGNORED)

\* whether a queried file that the reply does not list is evicted
Evicts(options, cache, filePath) ==
  IF getStatusOption(options) = ONLY_IGNORED
  THEN filePath \in DOMAIN cache /\ cache[filePath] = IGNORED
  ELSE IF getStatusOption(options) = ALL_STATUSES THEN TRUE
  ELSE ~(filePath \in DOMAIN cache /\ cache[filePath] = IGNORED)

\* variant: an eviction never touches the directory index
EvictsDirectoriesNever(options, cache, filePath) == FALSE

\* whether that eviction also takes the file out of the directory index
EvictsDirectories(options, cache, filePath) ==
  /\ getStatusOption(options) # ONLY_IGNORED
  /\ filePath \in DOMAIN cache /\ cache[filePath] = MODIFIED

\* the body of queriedFiles.forEach, for the three status options
EvictEntry(acc, options, filePath) ==
  IF Evicts(options, acc.cache, filePath)
  THEN [acc EXCEPT
          !.cache = Delete(@, filePath),
          !.dirs = IF EvictsDirectories(options, acc.cache, filePath)
                   THEN removeAllParentDirectoriesFromCache(
                          @, filePath, GetParent(ProjectDirectory))
                   ELSE @]
  ELSE acc

RECURSIVE ForEachQueried(_, _, _)
ForEachQueried(acc, options, keys) ==
  IF keys = <<>> THEN acc
  ELSE ForEachQueried(EvictEntry(acc, options, Head(keys)), options, Tail(keys))

\* variant: the coarse event is emitted only along with path-level events
EmitStatusEventsIfAny(acc) ==
  LET all == IF acc.events = <<>> THEN <<>>
             ELSE acc.events \o <<DidChangeStatuses>>
  IN [acc EXCEPT !.observed =
        @ \o [i \in 1..Len(all) |->
                [event |-> all[i], cache |-> acc.cache, dirs |-> acc.dirs]]]

\* statusChangeEvents.forEach(emit), then emit('did-change-statuses'): each
\* emission with the cache and the directory index its handlers can read
EmitStatusEvents(acc) ==
  LET all == acc.events \o <<DidChangeStatuses>>
  IN [acc EXCEPT !.observed =
        @ \o [i \in 1..Len(all) |->
                [event |-> all[i], cache |-> acc.cache, dirs |-> acc.dirs]]]

\* the cache, the directory index and the events after a reply is applied
ApplyStatuses(cache, dirs, pathsInRepo, options, reply) ==
  LET start == [cache |-> cache, dirs |-> dirs, events |-> <<>>,
                observed |-> <<>>, queried |-> Range(pathsInRepo)]
      merged == ForEachStatus(start, reply, SeqOfSet(DOMAIN reply))
  IN EmitStatusEvents(ForEachQueried(merged, options, SeqOfSet(merged.queried)))

\* a file both calls ask about
Covers(call, f) == \E i \in 1..Len(call.paths) : IsPrefix(call.paths[i], f)

\* the reply of the call states the status of f: it lists f, or it asked for
\* all statuses and f not being listed says the file is gone
Establishes(call, f) ==
  Covers(call, f) /\ (f \in DOMAIN call.reply \/ call.options = ALL_STATUSES)

\* history: the calls issued before call i learn what it left in the cache
Supersede(fetches, i, cache) ==
  [j \in 1..Len(fetches) |->
     IF j < i
     THEN [fetches[j] EXCEPT !.superseded =
             [f \in DOMAIN @ \cup {g \in RelevantFiles :
                                     Establishes(fetches[i], g) /\ Covers(fetches[j], g)}
                |-> IF Establishes(fetches[i], f)
                    THEN getCachedPathStatusOf(cache, f) ELSE @[f]]]
     ELSE fetches[j]]

RemoveAt(q, i) == SubSeq(q, 1, i - 1) \o SubSeq(q, i + 1, Len(q))

\* the part of _updateStatuses after its await, for the call at index i
updateStatusesResume(s, i) ==
  LET call == s.statusFetches[i]
      done == ApplyStatuses(s.hgStatusCache, s.modifiedDirectoryCache,
                            call.paths, call.options, call.reply)
      events == [k \in 1..Len(done.observed) |-> done.observed[k].event]
  IN [s EXCEPT
        !.hgStatusCache = done.cache,
        !.modifiedDirectoryCache = done.dirs,
        !.emitted = @ \o events,
        !.statusFetches = RemoveAt(Supersede(@, i, done.cache), i),
        !.lastUpdate = [owner |-> call.owner, options |-> call.options,
                        requested |-> call.requested,
                        queried |-> Range(call.paths), reply |-> call.reply,
                        before |-> s.hgStatusCache, after |-> done.cache,
                        dirsBefore |-> s.modifiedDirectoryCache,
                        dirsAfter |-> done.dirs,
                        events |-> events, observed |-> done.observed,
                        superseded |-> call.superseded]]

\* the backend call at index i is rejected: _updateStatuses throws
updateStatusesThrows(s, i) ==
  [s EXCEPT !.statusFetches = RemoveAt(@, i),
            !.tally.failures = @ + 1,
            !.tally.statusFailed = TRUE]


\* ---------------------------------------------------- _updateDiffInfo
DiffInfo == [added |-> 1, deleted |-> 0, lineDiffs |-> <<"+1">>]
\* hg diff: an entry for every file asked about that has changes
fetchDiffInfo(tr, paths) ==
  [f \in {g \in Range(paths) \cap RelevantFiles : tr[g] \in {MODIFIED, ADDED}}
     |-> DiffInfo]

\* variant: the filter does not look at _hgDiffCacheFilesUpdating
RECURSIVE FilterPathsUnchecked(_, _, _)
FilterPathsUnchecked(updating, filePaths, kept) ==
  IF filePaths = <<>> THEN [updating |-> updating, pathsToFetch |-> kept]
  ELSE LET aPath == Head(filePaths)
       IN IF ~isPathRelevant(aPath)
          THEN FilterPathsUnchecked(updating, Tail(filePaths), kept)
          ELSE FilterPathsUnchecked(updating \cup {aPath}, Tail(filePaths),
                                    Append(kept, aPath))

\* filePaths.filter(...) with its side effect on _hgDiffCacheFilesUpdating
RECURSIVE FilterPathsToFetch(_, _, _)
FilterPathsToFetch(updating, filePaths, kept) ==
  IF filePaths = <<>> THEN [updating |-> updating, pathsToFetch |-> kept]
  ELSE LET aPath == Head(filePaths)
       IN IF ~isPathRelevant(aPath) \/ aPath \in updating
          THEN FilterPathsToFetch(updating, Tail(filePaths), kept)
          ELSE FilterPathsToFetch(updating \cup {aPath}, Tail(filePaths),
                                  Append(kept, aPath))

\* the part of _updateDiffInfo before its await
updateDiffInfoCall(s, owner, filePaths) ==
  LET r == FilterPathsToFetch(s.hgDiffCacheFilesUpdating, filePaths, <<>>)
      s1 == [s EXCEPT !.hgDiffCacheFilesUpdating = r.updating,
                      !.lastDiff = [@ EXCEPT
                                      !.called = TRUE, !.owner = owner,
                                      !.requested = filePaths,
                                      !.updating = s.hgDiffCacheFilesUpdating,
                                      !.pathsToFetch = r.pathsToFetch]]
  IN IF Len(r.pathsToFetch) = 0
     THEN s1
     ELSE [s1 EXCEPT !.diffFetches = @ \cup {[owner |-> owner,
                                              id |-> s.tally.diffCalls + 1,
                                              paths |-> r.pathsToFetch]},
                     !.tally.diffCalls = @ + 1]

\* what fetchDiffInfo resolves with: a map, or null when hg diff failed
DiffInfoMap(map) == [isNull |-> FALSE, map |-> map]
NullDiffInfo == [isNull |-> TRUE, map |-> EmptyMap]

\* the results are written into _hgDiffCache, unless the reply is null
MergeDiffInfo(s, pathsToDiffInfo) ==
  IF pathsToDiffInfo.isNull THEN s
  ELSE [s EXCEPT !.hgDiffCache =
          [f \in DOMAIN @ \cup DOMAIN pathsToDiffInfo.map |->
             IF f \in DOMAIN pathsToDiffInfo.map THEN pathsToDiffInfo.map[f]
             ELSE @[f]]]

\* the files marked for deletion leave _hgDiffCache, and the marks are cleared
RemoveFilesToClear(s) ==
  [s EXCEPT !.hgDiffCache = [f \in DOMAIN @ \ s.hgDiffCacheFilesToClear |-> @[f]],
            !.hgDiffCacheFilesToClear = {}]

\* the fetched files can be updated again
DeleteFromUpdating(s, pathsToFetch) ==
  [s EXCEPT !.hgDiffCacheFilesUpdating = @ \ Range(pathsToFetch)]

\* the emit that ends _updateDiffInfo, with what a listener sees when it runs
EmitDiffInfoChanged(s) ==
  [Emit(s, DidChangeStatuses) EXCEPT
     !.lastDiff.observed =
        Append(@, [hgDiffCache |-> s.hgDiffCache,
                   hgDiffCacheFilesToClear |-> s.hgDiffCacheFilesToClear,
                   hgDiffCacheFilesUpdating |-> s.hgDiffCacheFilesUpdating])]

\* the call of _updateDiffInfo that resumes from its await
ResumedDiffInfo(s, call, pathsToDiffInfo) ==
  [s EXCEPT !.diffFetches = @ \ {call},
            !.lastDiff = [@ EXCEPT !.resumed = TRUE,
                                   !.fetched = call.paths,
                                   !.reply = pathsToDiffInfo.map,
                                   !.isNull = pathsToDiffInfo.isNull,
                                   !.toClear = s.hgDiffCacheFilesToClear]]

\* variant: the event is emitted as soon as the results are merged
updateDiffInfoResumeEmittingFirst(s, call, pathsToDiffInfo) ==
  DeleteFromUpdating(
    RemoveFilesToClear(
      EmitDiffInfoChanged(
        MergeDiffInfo(ResumedDiffInfo(s, call, pathsToDiffInfo),
                      pathsToDiffInfo))),
    call.paths)

\* the part of _updateDiffInfo after its await
updateDiffInfoResume(s, call, pathsToDiffInfo) ==
  EmitDiffInfoChanged(
    DeleteFromUpdating(
      RemoveFilesToClear(
        MergeDiffInfo(ResumedDiffInfo(s, call, pathsToDiffInfo),
                      pathsToDiffInfo)),
      call.paths))

\* the backend call is rejected: _updateDiffInfo throws at its await
updateDiffInfoThrows(s, call) ==
  [s EXCEPT !.diffFetches = @ \ {call}, !.tally.failures = @ + 1,
            !.lastDiff = [@ EXCEPT !.rejected = TRUE, !.owner = call.owner,
                                   !.fetched = call.paths]]

AwaitsStatuses(s, owner) ==
  \E i \in 1..Len(s.statusFetches) : s.statusFetches[i].owner = owner
AwaitsDiffInfo(s, owner) == \E c \in s.diffFetches : c.owner = owner


\* ------------------------------------------------ _updateChangedPaths
\* variant: the drain takes the first pending path only
DrainFirst(pending) ==
  IF pending = <<>> THEN [batch |-> <<>>, rest |-> <<>>]
  ELSE [batch |-> <<Head(pending)>>, rest |-> Tail(pending)]

\* toUpdateChangedPaths.splice(0): the batch taken and what stays pending
DrainPending(pending) == [batch |-> pending, rest |-> <<>>]

\* variant: the comparison is strict
IsIndividualUpdateStrict(n) == n < MAX_INDIVIDUAL_CHANGED_PATHS

\* variant: every batch is updated path by path
IsIndividualUpdateAlways(n) == TRUE

\* relevantChangedPaths.length <= MAX_INDIVIDUAL_CHANGED_PATHS
IsIndividualUpdate(n) == n <= MAX_INDIVIDUAL_CHANGED_PATHS

\* _updateChangedPaths up to its first await that suspends
updateChangedPaths(s, changedPaths) ==
  LET relevantChangedPaths == SelectSeq(changedPaths, isPathRelevant)
      n == Len(relevantChangedPaths)
  IN IF n = 0
     THEN [s EXCEPT !.lastBatch.n = 0, !.lastBatch.branch = "none"]
     ELSE IF IsIndividualUpdate(n)
     THEN [updateStatusesCall(s, "changedPaths", relevantChangedPaths, ALL_STATUSES)
             EXCEPT !.changedPathsCall = [pc |-> "status",
                                          paths |-> relevantChangedPaths,
                                          await |-> "none"],
                    !.lastBatch.n = n, !.lastBatch.branch = "targeted"]
     ELSE \* await this._serializedRefreshStatusesCache(): the debounced function
          \* arms its timer and returns the promise of its previous invocation
          [s EXCEPT !.refreshTimer = TRUE,
                    !.changedPathsCall =
                       IF s.refreshResult \in {"current", "next"}
                       THEN [pc |-> "refresh", paths |-> relevantChangedPaths,
                             await |-> s.refreshResult]
                       ELSE IdleCall,
                    !.lastBatch.n = n, !.lastBatch.branch = "full"]

\* the function serializedUpdateChangedPaths wraps: drain the buffer, update
StartChangedPaths(s, cause) ==
  LET drained == DrainPending(s.toUpdateChangedPaths)
      owed == [p \in NotifiedPaths |->
                 s.tally.delivered[p] - s.tally.processed[p]]
      s1 == [s EXCEPT
               !.toUpdateChangedPaths = drained.rest,
               !.lastBatch = [cause |-> cause, batch |-> drained.batch,
                              owed |-> owed, triggers |-> s.tally.busyFires,
                              n |-> 0, branch |-> "none"],
               !.tally.runs = @ + 1,
               !.tally.busyFires = 0,
               !.tally.processed = [p \in NotifiedPaths |->
                                      @[p] + Count(drained.batch, p)]]
  IN updateChangedPaths(s1, drained.batch)

\* serializeAsyncCall: the call in flight settles; a scheduled call starts
FinishChangedPaths(s) ==
  LET s1 == [s EXCEPT !.changedPathsCall = IdleCall,
                      !.tally.busyRuns = @ + (IF s.tally.busyFires > 0 THEN 1 ELSE 0)]
  IN IF s.changedPathsScheduled
     THEN StartChangedPaths([s1 EXCEPT !.changedPathsScheduled = FALSE], "scheduled")
     ELSE s1

\* _updateChangedPaths after its status update: the diff info of the changed paths
ChangedPathsAfterStatuses(s) ==
  LET s1 == updateDiffInfoCall(s, "changedPaths",
              SelectSeq(s.changedPathsCall.paths,
                        LAMBDA f : f \in DOMAIN s.hgDiffCache))
  IN IF AwaitsDiffInfo(s1, "changedPaths")
     THEN [s1 EXCEPT !.changedPathsCall.pc = "diff"]
     ELSE FinishChangedPaths(s1)

\* ---------------------------------- _refreshStatusesOfAllFilesInCache
\* history: a cleared cache ends what earlier replies had established
ForgetSuperseded(fetches) ==
  [j \in 1..Len(fetches) |-> [fetches[j] EXCEPT !.superseded = EmptyMap]]

\* variant: the refresh leaves the diff cache as it is
refreshStatusesOfAllFilesInCacheKeepingDiffs(s) ==
  LET pathsInDiffCache == SeqOfSet(DOMAIN s.hgDiffCache)
      s1 == [s EXCEPT !.hgStatusCache = EmptyMap,
                      !.modifiedDirectoryCache = EmptyMap,
                      !.statusFetches = ForgetSuperseded(@),
                      !.refreshCall = [pc |-> "status", paths |-> pathsInDiffCache,
                                       await |-> "none"],
                      !.tally.fullRuns = @ + 1]
  IN updateStatusesCall(s1, "refresh", <<ProjectDirectory>>, ONLY_NON_IGNORED)

\* _refreshStatusesOfAllFilesInCache up to its first await
refreshStatusesOfAllFilesInCache(s) ==
  LET pathsInDiffCache == SeqOfSet(DOMAIN s.hgDiffCache)
      s1 == [s EXCEPT !.hgStatusCache = EmptyMap,
                      !.modifiedDirectoryCache = EmptyMap,
                      !.hgDiffCache = EmptyMap,
                      !.statusFetches = ForgetSuperseded(@),
                      !.refreshCall = [pc |-> "status", paths |-> pathsInDiffCache,
                                       await |-> "none"],
                      !.tally.fullRuns = @ + 1]
  IN updateStatusesCall(s1, "refresh", <<ProjectDirectory>>, ONLY_NON_IGNORED)

\* serializeAsyncCall: the refresh in flight settles; a scheduled one starts,
\* and an _updateChangedPaths that awaited the settled promise goes on
FinishRefresh(s) ==
  LET resumes == s.changedPathsCall.pc = "refresh"
                 /\ s.changedPathsCall.await = "current"
      s1 == [s EXCEPT !.refreshCall = IdleCall,
                      !.refreshResult = IF @ = "current" THEN "settled" ELSE @]
      s2 == IF resumes THEN FinishChangedPaths(s1) ELSE s1
  IN IF s.refreshScheduled
     THEN refreshStatusesOfAllFilesInCache(
            [s2 EXCEPT !.refreshScheduled = FALSE,
                       !.refreshResult = IF @ = "next" THEN "current" ELSE @,
                       !.changedPathsCall.await =
                          IF @ = "next" THEN "current" ELSE @])
     ELSE s2

\* _refreshStatusesOfAllFilesInCache after its status update
RefreshAfterStatuses(s) ==
  IF Len(s.refreshCall.paths) > 0
  THEN LET s1 == updateDiffInfoCall(s, "refresh", s.refreshCall.paths)
       IN IF AwaitsDiffInfo(s1, "refresh")
          THEN [s1 EXCEPT !.refreshCall.pc = "diff"]
          ELSE FinishRefresh(s1)
  ELSE FinishRefresh(s)


\* -------------------------------------------------------- getStatuses
GetStatusesPaths == {<<FileA>>, <<FileA, FileB>>, <<Outside>>}
GetStatusesOptions == {NoOptions, ONLY_IGNORED, ALL_STATUSES}

\* getStatuses returns statusMap
getStatusesReturns(s, call, statusMap) ==
  [s EXCEPT !.getStatusesCall = IdleGet,
            !.lastGet.returned = TRUE,
            !.lastGet.paths = call.paths, !.lastGet.options = call.options,
            !.lastGet.statusMap = call.statusMap,
            !.lastGet.skipped = call.skipped,
            !.lastGet.result = statusMap]

\* getStatuses after its await: the fetched statuses are added to statusMap
getStatusesResume(s, newStatusInfo) ==
  getStatusesReturns(s, s.getStatusesCall,
    [f \in DOMAIN s.getStatusesCall.statusMap \cup DOMAIN newStatusInfo |->
       IF f \in DOMAIN newStatusInfo
       THEN StatusCodeIdToNumber(newStatusInfo[f])
       ELSE s.getStatusesCall.statusMap[f]])

\* getStatuses up to its await: cached statuses that pass the filter go to
\* statusMap, the cache misses go to _updateStatuses
getStatuses(s, paths, options) ==
  LET cached == {f \in Range(paths) : f \in DOMAIN s.hgStatusCache}
      relevant == {f \in cached :
                     getPredicateForRelevantStatuses(options, s.hgStatusCache[f])}
      pathsWithCacheMiss ==
        SelectSeq(paths, LAMBDA f : f \notin DOMAIN s.hgStatusCache)
      call == [pc |-> "status", paths |-> paths, options |-> options,
               statusMap |-> [f \in relevant |->
                                StatusCodeIdToNumber(s.hgStatusCache[f])],
               skipped |-> cached \ relevant]
      s1 == [s EXCEPT !.getStatusesCall = call,
                      !.lastGet = [NoGet EXCEPT !.called = TRUE,
                                                !.paths = paths,
                                                !.options = options,
                                                !.statusMap = call.statusMap,
                                                !.skipped = call.skipped]]
  IN IF Len(pathsWithCacheMiss) > 0
     THEN LET s2 == updateStatusesCall(s1, "getStatuses", pathsWithCacheMiss, options)
          IN IF AwaitsStatuses(s2, "getStatuses") THEN s2
             ELSE getStatusesReturns(s2, call, call.statusMap)
     ELSE getStatusesReturns(s1, call, call.statusMap)

\* refreshStatus up to its await: getStatuses on the project directories
refreshStatus(s) == getStatuses(s, <<ProjectDirectory>>, ONLY_NON_IGNORED)

\* ------------------------------------------------------ notifications
\* variant: the update is invoked without the debounce
onFilesChangesUndebounced(s, changedPaths) ==
  LET pushed == [s EXCEPT !.toUpdateChangedPaths = @ \o changedPaths]
  IN IF s.changedPathsCall.pc = "idle"
     THEN StartChangedPaths(pushed, "timer")
     ELSE [pushed EXCEPT !.changedPathsScheduled = TRUE]

\* variant: the paths replace the buffer instead of being pushed onto it
onFilesChangesReplacing(s, changedPaths) ==
  [s EXCEPT !.toUpdateChangedPaths = changedPaths,
            !.changedPathsTimer = TRUE]

\* onFilesChanges: buffer the paths and invoke the debounced update
onFilesChanges(s, changedPaths) ==
  [s EXCEPT !.toUpdateChangedPaths = @ \o changedPaths,
            !.changedPathsTimer = TRUE]

\* ------------------------------------------------------------ actions
\* the state the constructor leaves
Constructed ==
  /\ hgStatusCache = EmptyMap
  /\ modifiedDirectoryCache = EmptyMap
  /\ hgDiffCache = EmptyMap
  /\ hgDiffCacheFilesUpdating = {}
  /\ hgDiffCacheFilesToClear = {}
  /\ editorSubscriptions = {}
  /\ toUpdateChangedPaths = <<>>
  /\ changedPathsTimer = FALSE
  /\ changedPathsScheduled = FALSE
  /\ changedPathsCall = IdleCall
  /\ refreshTimer = FALSE
  /\ refreshScheduled = FALSE
  /\ refreshCall = IdleCall
  /\ refreshResult = "undefined"
  /\ statusFetches = <<>>
  /\ diffFetches = {}
  /\ getStatusesCall = IdleGet
  /\ emitted = <<>>
  /\ lastUpdate = NoUpdate
  /\ lastBatch = NoBatch
  /\ lastGet = NoGet
  /\ lastDiff = NoDiff
  /\ lastRead = NoRead
  /\ lastDestroy = NoDestroy
  /\ isDestroyed = FALSE
  /\ subscriptionsDisposed = FALSE
  /\ revisionIdToFileChanges = EmptyMap
  /\ fileContentsAtRevisionIds = EmptyMap
  /\ revisionCalls = {}
  /\ lastLookup = NoLookup
  /\ activeBookmark = "undefined"
  /\ bookmarkFetches = 0
  /\ lastShortHead = NoShortHead
  /\ tally = ZeroTally

\* a file's true status changes in the working directory
BackendChanges(f, code) ==
  /\ tally.backendChanges < MaxBackendChanges
  /\ truth[f] # code
  /\ Becomes([Now EXCEPT !.truth[f] = code,
                         !.tally.backendChanges = @ + 1,
                         !.tally.fresh[f] = FALSE])

\* the service's observeFilesDidChange delivers changed paths
FilesDidChange(changedPaths) ==
  /\ ~subscriptionsDisposed
  /\ tally.notifications < MaxNotifications
  /\ Becomes([onFilesChanges(Now, changedPaths) EXCEPT
                !.tally.notifications = @ + 1,
                !.tally.notifiedSinceFailure = @ \/ tally.statusFailed,
                !.tally.windows = @ + (IF changedPathsTimer THEN 0 ELSE 1),
                !.tally.delivered = [p \in NotifiedPaths |->
                                       @[p] + Count(changedPaths, p)],
                !.tally.fresh = [f \in RelevantFiles |->
                                   @[f] \/ f \in Range(changedPaths)]])

\* the debounce delay of serializedUpdateChangedPaths elapses
ChangedPathsTimerFires ==
  /\ changedPathsTimer
  /\ LET s == [Now EXCEPT !.changedPathsTimer = FALSE]
     IN IF changedPathsCall.pc = "idle"
        THEN Becomes(StartChangedPaths(
                       [s EXCEPT !.tally.idleFires = @ + 1], "timer"))
        ELSE Becomes([s EXCEPT !.changedPathsScheduled = TRUE,
                               !.tally.busyFires = @ + 1])

\* the service's observeHgRepoStateDidChange fires
HgRepoStateDidChange ==
  /\ ~subscriptionsDisposed
  /\ tally.repoStateChanges < MaxRepoStateChanges
  /\ Becomes([Now EXCEPT !.refreshTimer = TRUE,
                         !.tally.repoStateChanges = @ + 1])

\* the debounce delay of _serializedRefreshStatusesCache elapses
RefreshTimerFires ==
  /\ refreshTimer
  /\ LET s == [Now EXCEPT !.refreshTimer = FALSE]
     IN IF refreshCall.pc = "idle"
        THEN Becomes(refreshStatusesOfAllFilesInCache(
                       [s EXCEPT !.refreshResult = "current"]))
        ELSE Becomes([s EXCEPT !.refreshScheduled = TRUE,
                               !.refreshResult = "next"])

\* a consumer calls getStatuses
GetStatuses(paths, options) ==
  /\ tally.getStatuses < MaxGetStatuses
  /\ ~AwaitsStatuses(Now, "getStatuses")
  /\ Becomes([getStatuses(Now, paths, options) EXCEPT !.tally.getStatuses = @ + 1])

\* a consumer calls refreshStatus
RefreshStatus ==
  /\ tally.getStatuses < MaxGetStatuses
  /\ ~AwaitsStatuses(Now, "getStatuses")
  /\ Becomes([refreshStatus(Now) EXCEPT !.tally.getStatuses = @ + 1])

\* variant: a refresh goes on to its diff step when _updateStatuses threw
AfterStatusesIgnoringFailure(s, owner, ok) ==
  IF owner = "changedPaths" THEN ChangedPathsAfterStatuses(s)
  ELSE IF owner = "refresh" THEN RefreshAfterStatuses(s)
  ELSE IF ok THEN getStatusesResume(s, s.lastUpdate.reply)
  ELSE [s EXCEPT !.getStatusesCall = IdleGet]

\* variant: a caller whose _updateStatuses threw never settles
AfterStatusesHangingOnFailure(s, owner, ok) ==
  IF ~ok THEN s
  ELSE IF owner = "changedPaths" THEN ChangedPathsAfterStatuses(s)
  ELSE IF owner = "refresh" THEN RefreshAfterStatuses(s)
  ELSE getStatusesResume(s, s.lastUpdate.reply)

\* what the caller of _updateStatuses does once it returned or threw
AfterStatuses(s, owner, ok) ==
  IF owner = "changedPaths"
  THEN IF ok THEN ChangedPathsAfterStatuses(s) ELSE FinishChangedPaths(s)
  ELSE IF owner = "refresh"
  THEN IF ok THEN RefreshAfterStatuses(s) ELSE FinishRefresh(s)
  ELSE IF ok THEN getStatusesResume(s, s.lastUpdate.reply)
  ELSE \* getStatuses has no catch: its promise is rejected
       [s EXCEPT !.getStatusesCall = IdleGet,
                 !.lastGet = [NoGet EXCEPT !.paths = s.getStatusesCall.paths,
                                           !.options = s.getStatusesCall.options,
                                           !.rejected = TRUE]]

\* what the caller of _updateDiffInfo does once it returned or threw
AfterDiffInfo(s, owner) ==
  IF owner = "changedPaths" THEN FinishChangedPaths(s)
  ELSE IF owner = "refresh" THEN FinishRefresh(s)
  ELSE s

\* the backend answers the fetchStatuses call at index i
FetchStatusesReturns(i) ==
  /\ i \in 1..Len(statusFetches)
  /\ Becomes(AfterStatuses(updateStatusesResume(Now, i),
                           statusFetches[i].owner, TRUE))

\* the backend rejects the fetchStatuses call at index i
FetchStatusesFails(i) ==
  /\ i \in 1..Len(statusFetches)
  /\ tally.failures < MaxFailures
  /\ Becomes(AfterStatuses(updateStatusesThrows(Now, i),
                           statusFetches[i].owner, FALSE))

\* the backend answers a fetchDiffInfo call with a map
FetchDiffInfoReturns(call) ==
  /\ call \in diffFetches
  /\ Becomes(AfterDiffInfo(
               updateDiffInfoResume(Now, call,
                                    DiffInfoMap(fetchDiffInfo(truth, call.paths))),
               call.owner))

\* the backend answers a fetchDiffInfo call with null (hg diff failed)
FetchDiffInfoReturnsNull(call) ==
  /\ call \in diffFetches
  /\ tally.failures < MaxFailures
  /\ Becomes(AfterDiffInfo(
               [updateDiffInfoResume(Now, call, NullDiffInfo) EXCEPT
                  !.tally.failures = @ + 1],
               call.owner))

\* the backend rejects a fetchDiffInfo call
FetchDiffInfoFails(call) ==
  /\ call \in diffFetches
  /\ tally.failures < MaxFailures
  /\ Becomes(AfterDiffInfo(updateDiffInfoThrows(Now, call), call.owner))

\* ------------------------------------------------------------ editors
\* the observeTextEditors callback, for an editor on filePath
observeTextEditor(s, filePath) ==
  IF ~isPathRelevant(filePath) \/ filePath \in s.editorSubscriptions THEN s
  ELSE [s EXCEPT !.editorSubscriptions = @ \cup {filePath}]

\* the onDidDestroy callback of the editor on filePath
onDidDestroy(s, filePath) ==
  [s EXCEPT !.hgDiffCacheFilesToClear = @ \cup {filePath},
            !.editorSubscriptions = @ \ {filePath}]

\* how many saves, direct requests and notifications have happened
DiffTriggers == tally.saves + tally.diffRequests + tally.notifications

\* an editor on filePath is opened
ObserveTextEditor(filePath) ==
  /\ ~subscriptionsDisposed
  /\ filePath \notin editorSubscriptions
  /\ Becomes(observeTextEditor(Now, filePath))

\* the editor on filePath saves: the onDidSave callback
EditorSaves(filePath) ==
  /\ filePath \in editorSubscriptions
  /\ DiffTriggers < MaxDiffTriggers
  /\ Becomes([updateDiffInfoCall(Now, "editor", <<filePath>>) EXCEPT
                !.tally.saves = @ + 1])

\* the editor on filePath is closed
EditorDestroyed(filePath) ==
  /\ filePath \in editorSubscriptions
  /\ Becomes(onDidDestroy(Now, filePath))

\* _updateDiffInfo is called with a list of paths
DiffRequestPaths == {<<FileA, FileA>>, <<FileA, FileB>>, <<Outside>>}
UpdateDiffInfo(filePaths) ==
  /\ DiffTriggers < MaxDiffTriggers
  /\ Becomes([updateDiffInfoCall(Now, "caller", filePaths) EXCEPT
                !.tally.diffRequests = @ + 1])

\* _clearClientCache, the finally handler of commit and amend
clearClientCache(s) ==
  Emit([s EXCEPT !.hgDiffCache = EmptyMap, !.hgStatusCache = EmptyMap],
       DidChangeStatuses)

\* hg commit and hg amend: a completed one leaves the changed files clean, a
\* failed one leaves the working directory as it was
CommitOutcomes == {"completed", "failed"}
commitInBackend(tr, outcome) ==
  IF outcome = "failed" THEN tr
  ELSE [f \in DOMAIN tr |->
          IF tr[f] \in {MODIFIED, ADDED} THEN CLEAN
          ELSE IF tr[f] = REMOVED THEN NoFile ELSE tr[f]]

\* the observable of a commit or amend passthrough terminates
CommitFinishes(outcome) ==
  Becomes([clearClientCache([Now EXCEPT !.truth = commitInBackend(@, outcome)])
             EXCEPT !.tally.commits = @ + 1])

\* ----------------------------------------------------------- teardown
\* variant: destroy without the check of _isDestroyed
destroyUnguarded(s) ==
  LET s1 == [s EXCEPT !.isDestroyed = TRUE, !.editorSubscriptions = {}]
      s2 == [Emit(s1, DidDestroy) EXCEPT !.tally.didDestroy = @ + 1]
  IN [s2 EXCEPT !.subscriptionsDisposed = TRUE,
                !.revisionIdToFileChanges = EmptyMap,
                !.fileContentsAtRevisionIds = EmptyMap]

destroy(s) ==
  IF s.isDestroyed THEN s
  ELSE LET s1 == [s EXCEPT !.isDestroyed = TRUE, !.editorSubscriptions = {}]
           s2 == [Emit(s1, DidDestroy) EXCEPT !.tally.didDestroy = @ + 1]
       IN [s2 EXCEPT !.subscriptionsDisposed = TRUE,
                     !.revisionIdToFileChanges = EmptyMap,
                     !.fileContentsAtRevisionIds = EmptyMap]

\* the events of the last handler that reached a listener: a disposed emitter
\* has no handlers left, and destroy emits did-destroy before it disposes
DeliveredEvents ==
  IF subscriptionsDisposed /\ ~(lastDestroy.called /\ ~lastDestroy.wasDestroyed)
  THEN <<>> ELSE emitted

\* a consumer calls destroy
Destroy ==
  Becomes([destroy(Now) EXCEPT
             !.lastDestroy = [called |-> TRUE, wasDestroyed |-> isDestroyed]])

\* ------------------------------------------- state at specific revisions
Revisions == {"r1"}

\* what the service can deliver for a revision
RevisionValues == {"v1", "v2"}

\* a call to the service about a revision
RevisionCall(kind, revision, filePath) ==
  [kind |-> kind, revision |-> revision, filePath |-> filePath]

\* variant: the lookup asks the service although the changes are cached
fetchFilesChangedAtRevisionUncached(s, revision) ==
  [s EXCEPT !.revisionCalls = @ \cup {RevisionCall("changes", revision, <<>>)},
            !.tally.revisionFetches = @ + 1,
            !.lastLookup = [NoLookup EXCEPT !.called = TRUE, !.kind = "changes",
                                            !.revision = revision]]

\* fetchFilesChangedAtRevision: the cached changes, or a call to the service
fetchFilesChangedAtRevision(s, revision) ==
  IF revision \in DOMAIN s.revisionIdToFileChanges
  THEN [s EXCEPT !.lastLookup =
          [NoLookup EXCEPT !.called = TRUE, !.kind = "changes",
                           !.revision = revision, !.hit = TRUE,
                           !.value = s.revisionIdToFileChanges[revision]]]
  ELSE [s EXCEPT !.revisionCalls = @ \cup {RevisionCall("changes", revision, <<>>)},
                 !.tally.revisionFetches = @ + 1,
                 !.lastLookup = [NoLookup EXCEPT !.called = TRUE,
                                                 !.kind = "changes",
                                                 !.revision = revision]]

\* fetchFileContentAtRevision: the revision gets its map of contents; the
\* cached contents of the path, or a call to the service
fetchFileContentAtRevision(s, filePath, revision) ==
  LET s1 == IF revision \in DOMAIN s.fileContentsAtRevisionIds THEN s
            ELSE [s EXCEPT !.fileContentsAtRevisionIds = Put(@, revision, EmptyMap)]
      fileContentsAtRevision == s1.fileContentsAtRevisionIds[revision]
      looked == [NoLookup EXCEPT !.called = TRUE, !.kind = "content",
                                 !.revision = revision, !.filePath = filePath]
  IN IF filePath \in DOMAIN fileContentsAtRevision
     THEN [s1 EXCEPT !.lastLookup =
             [looked EXCEPT !.hit = TRUE, !.value = fileContentsAtRevision[filePath]]]
     ELSE [s1 EXCEPT !.revisionCalls =
                        @ \cup {RevisionCall("content", revision, filePath)},
                     !.tally.revisionFetches = @ + 1,
                     !.lastLookup = looked]

\* a consumer subscribes to fetchFilesChangedAtRevision
FetchFilesChangedAtRevision(revision) ==
  Becomes(fetchFilesChangedAtRevision(Now, revision))

\* the service answers with the changes of the revision: the do callback
FilesChangedAtRevisionArrive(revision, fetchedChanges) ==
  /\ RevisionCall("changes", revision, <<>>) \in revisionCalls
  /\ Becomes([Now EXCEPT
                !.revisionIdToFileChanges = Put(@, revision, fetchedChanges),
                !.revisionCalls = @ \ {RevisionCall("changes", revision, <<>>)}])

\* a consumer subscribes to fetchFileContentAtRevision
FetchFileContentAtRevision(filePath, revision) ==
  Becomes(fetchFileContentAtRevision(Now, filePath, revision))

\* the service answers with the contents of filePath at the revision: the do
\* callback writes them into the map the call had put into the cache
FileContentAtRevisionArrives(filePath, revision, contents) ==
  /\ RevisionCall("content", revision, filePath) \in revisionCalls
  /\ Becomes([Now EXCEPT
                !.fileContentsAtRevisionIds =
                   IF revision \in DOMAIN @
                   THEN Put(@, revision, Put(@[revision], filePath, contents))
                   ELSE @,
                !.revisionCalls = @ \ {RevisionCall("content", revision, filePath)}])

\* a consumer reads the caches through the synchronous getters
ReadPaths == NotifiedPaths \cup {GetParent(FileB), NoPath}
ReadCaches(filePath) ==
  Becomes([Now EXCEPT !.lastRead =
             [called |-> TRUE, path |-> filePath,
              pathStatus |-> getCachedPathStatus(Now, filePath),
              allPathStatuses |-> getAllPathStatuses(Now),
              directoryStatus |-> getDirectoryStatus(Now, filePath),
              diffStats |-> getDiffStats(Now, filePath),
              lineDiffs |-> getLineDiffs(Now, filePath)]])

\* ------------------------------------------------------ active bookmark
\* how a fetchActiveBookmark call of the service ends: with the name of the
\* active bookmark, with the empty string, or rejected
BookmarkOutcomes == {"", "b1", "b2", "rejected"}

\* _getShortHeadAsync up to its await: the call to the service
getShortHeadAsync(s) ==
  [s EXCEPT !.bookmarkFetches = @ + 1]

\* _getShortHeadAsync from its await on: a rejection is caught and leaves the
\* empty string; a bookmark that differs from the cached one replaces it, and
\* the two events follow
getShortHeadAsyncResume(s, outcome) ==
  LET newlyFetchedBookmark == IF outcome = "rejected" THEN "" ELSE outcome
      s1 == [s EXCEPT !.bookmarkFetches = @ - 1]
  IN IF newlyFetchedBookmark # s1.activeBookmark
     THEN Emit(Emit([s1 EXCEPT !.activeBookmark = newlyFetchedBookmark],
                    DidChangeStatuses),
               DidChangeShortHead)
     ELSE s1

\* getShortHead: an undefined or empty _activeBookmark is falsy
getShortHead(s) ==
  IF s.activeBookmark \in {"undefined", ""}
  THEN [getShortHeadAsync(s) EXCEPT
          !.lastShortHead = [called |-> TRUE, returned |-> "", fetched |-> TRUE,
                             earlierMisses |-> s.tally.shortHeadMisses],
          !.tally.shortHeadMisses = @ + 1]
  ELSE [s EXCEPT
          !.lastShortHead = [called |-> TRUE, returned |-> s.activeBookmark,
                             fetched |-> FALSE,
                             earlierMisses |-> s.tally.shortHeadMisses]]

BookmarkTriggers == tally.shortHeadReads + tally.bookmarkNotifications

\* a consumer calls getShortHead
GetShortHead ==
  /\ BookmarkTriggers < MaxBookmarkTriggers
  /\ Becomes([getShortHead(Now) EXCEPT !.tally.shortHeadReads = @ + 1])

\* the service's observeActiveBookmarkDidChange fires: fetchActiveBookmark
ActiveBookmarkDidChange ==
  /\ ~subscriptionsDisposed
  /\ BookmarkTriggers < MaxBookmarkTriggers
  /\ Becomes([getShortHeadAsync(Now) EXCEPT !.tally.bookmarkNotifications = @ + 1])

\* a fetchActiveBookmark call of the service settles
FetchActiveBookmarkSettles(outcome) ==
  /\ bookmarkFetches > 0
  /\ Becomes(getShortHeadAsyncResume(Now, outcome))

\* ---------------------------------------------------- specifications
\* the refresh coordinator: notifications, the two debounced and serialized
\* refreshes, and the backend's answers and failures
Init ==
  /\ Constructed
  /\ truth \in [RelevantFiles -> {MODIFIED, IGNORED}]
  /\ truth[FileB] = MODIFIED

Next ==
  \/ \E p \in NotifiedPaths : FilesDidChange(<<p>>)
  \/ ChangedPathsTimerFires
  \/ HgRepoStateDidChange
  \/ RefreshTimerFires
  \/ \E i \in 1..Len(statusFetches) : FetchStatusesReturns(i)
  \/ \E i \in 1..Len(statusFetches) : FetchStatusesFails(i)

Spec == Init /\ [][Next]_vars

\* status updates: consumers' getStatuses calls race with targeted refreshes
\* while the files' true statuses change
InitStatus ==
  /\ Constructed
  /\ truth \in [RelevantFiles -> TrueStatuses]
  /\ truth[FileB] \in {MODIFIED, IGNORED}

NextStatus ==
  \/ \E code \in TrueStatuses : BackendChanges(FileA, code)
  \/ \E f \in RelevantFiles :
       tally.notifications < MaxStatusNotifications /\ FilesDidChange(<<f>>)
  \/ ChangedPathsTimerFires
  \/ \E paths \in GetStatusesPaths, options \in GetStatusesOptions :
       GetStatuses(paths, options)
  \/ \E i \in 1..Len(statusFetches) : FetchStatusesReturns(i)

SpecStatus == InitStatus /\ [][NextStatus]_vars

\* diff info: editors saving and closing, direct requests and targeted
\* refreshes ask for the diff info of files, and the backend answers or fails
InitDiff ==
  /\ Constructed
  /\ truth \in [RelevantFiles -> {MODIFIED, CLEAN}]
  /\ truth[FileB] = MODIFIED

NextDiff ==
  \/ \E f \in NotifiedPaths : ObserveTextEditor(f)
  \/ \E f \in RelevantFiles : EditorSaves(f)
  \/ \E f \in RelevantFiles : EditorDestroyed(f)
  \/ \E filePaths \in DiffRequestPaths : UpdateDiffInfo(filePaths)
  \/ DiffTriggers < MaxDiffTriggers /\ FilesDidChange(<<FileA>>)
  \/ ChangedPathsTimerFires
  \/ \E i \in 1..Len(statusFetches) : FetchStatusesReturns(i)
  \/ \E call \in diffFetches : FetchDiffInfoReturns(call)
  \/ \E call \in diffFetches : FetchDiffInfoReturnsNull(call)
  \/ \E call \in diffFetches : FetchDiffInfoFails(call)

SpecDiff == InitDiff /\ [][NextDiff]_vars

\* full and targeted refreshes of a client whose editors keep diff info:
\* repository-state and file-change notifications, consumers' refreshStatus
\* calls, and the backend's answers and failures
RefreshTriggers ==
  tally.saves + tally.notifications + tally.repoStateChanges
    + tally.getStatuses + tally.failures

InitRefresh ==
  /\ Constructed
  /\ truth \in [RelevantFiles -> {MODIFIED, ADDED, CLEAN}]

NextRefresh ==
  \/ RefreshTriggers < MaxRefreshTriggers /\ HgRepoStateDidChange
  \/ RefreshTimerFires
  \/ RefreshTriggers < MaxRefreshTriggers /\ RefreshStatus
  \/ ObserveTextEditor(FileA)
  \/ RefreshTriggers < MaxRefreshTriggers /\ EditorSaves(FileA)
  \/ RefreshTriggers < MaxRefreshTriggers /\ FilesDidChange(<<FileA>>)
  \/ ChangedPathsTimerFires
  \/ \E i \in 1..Len(statusFetches) : FetchStatusesReturns(i)
  \/ \E i \in 1..Len(statusFetches) :
       RefreshTriggers < MaxRefreshTriggers /\ FetchStatusesFails(i)
  \/ \E call \in diffFetches : FetchDiffInfoReturns(call)

SpecRefresh == InitRefresh /\ [][NextRefresh]_vars

\* paths inside and outside the project directory, and empty path lists,
\* reach getStatuses, _updateDiffInfo and the change notifications
NextPaths ==
  \/ \E paths \in {<<>>, <<Outside>>, <<Outside, FileA>>} :
       GetStatuses(paths, NoOptions)
  \/ \E filePaths \in {<<Outside>>, <<Outside, FileA>>} : UpdateDiffInfo(filePaths)
  \/ \E p \in NotifiedPaths :
       DiffTriggers < MaxDiffTriggers /\ FilesDidChange(<<p>>)
  \/ ChangedPathsTimerFires
  \/ RefreshTimerFires
  \/ \E i \in 1..Len(statusFetches) : FetchStatusesReturns(i)
  \/ \E call \in diffFetches : FetchDiffInfoReturns(call)

SpecPaths == InitDiff /\ [][NextPaths]_vars

\* the session: files change, editors save, commits and amends finish,
\* revisions are looked up, consumers read the caches through the synchronous
\* getters, and the client is destroyed
SessionTriggers ==
  tally.saves + tally.notifications + tally.commits + tally.revisionFetches

InitSession ==
  /\ Constructed
  /\ truth \in [RelevantFiles -> {MODIFIED, ADDED}]

NextSession ==
  \/ \E f \in RelevantFiles : ObserveTextEditor(f)
  \/ \E f \in RelevantFiles :
       SessionTriggers < MaxSessionTriggers /\ EditorSaves(f)
  \/ \E f \in RelevantFiles :
       SessionTriggers < MaxSessionTriggers /\ FilesDidChange(<<f>>)
  \/ ChangedPathsTimerFires
  \/ \E i \in 1..Len(statusFetches) : FetchStatusesReturns(i)
  \/ \E call \in diffFetches : FetchDiffInfoReturns(call)
  \/ \E filePath \in ReadPaths : ReadCaches(filePath)
  \/ \E outcome \in CommitOutcomes :
       SessionTriggers < MaxSessionTriggers /\ CommitFinishes(outcome)
  \/ \E revision \in Revisions :
       /\ \/ SessionTriggers < MaxSessionTriggers
          \/ revision \in DOMAIN revisionIdToFileChanges
       /\ FetchFilesChangedAtRevision(revision)
  \/ \E revision \in Revisions, fetchedChanges \in RevisionValues :
       FilesChangedAtRevisionArrive(revision, fetchedChanges)
  \/ \E revision \in Revisions :
       /\ \/ SessionTriggers < MaxSessionTriggers
          \/ /\ revision \in DOMAIN fileContentsAtRevisionIds
             /\ FileA \in DOMAIN fileContentsAtRevisionIds[revision]
       /\ FetchFileContentAtRevision(FileA, revision)
  \/ \E revision \in Revisions, contents \in RevisionValues :
       FileContentAtRevisionArrives(FileA, revision, contents)
  \/ Destroy

SpecSession == InitSession /\ [][NextSession]_vars

\* the active bookmark: consumers read the short head, the service notifies
\* of a changed active bookmark and answers the fetches, and the client is
\* destroyed
NextShortHead ==
  \/ GetShortHead
  \/ ActiveBookmarkDidChange
  \/ \E outcome \in BookmarkOutcomes : FetchActiveBookmarkSettles(outcome)
  \/ Destroy

SpecShortHead == InitSession /\ [][NextShortHead]_vars

\* ------------------------------------------------------------- properties
\* nothing is armed, scheduled, running or outstanding
Quiet ==
  /\ ~changedPathsTimer /\ ~refreshTimer
  /\ ~changedPathsScheduled /\ ~refreshScheduled
  /\ changedPathsCall.pc = "idle" /\ refreshCall.pc = "idle"
  /\ statusFetches = <<>> /\ diffFetches = {}

\* the refresh pipelines that have a backend call outstanding
PipelinesInFlight ==
  {o \in {"changedPaths", "refresh"} :
     AwaitsStatuses(Now, o) \/ AwaitsDiffInfo(Now, o)}

\* C1: at any instant at most one refresh pipeline has backend calls
\* outstanding: a targeted refresh and a full refresh never overlap, and no
\* two full refreshes overlap.
OneRefreshPipelineInFlight ==
  /\ Cardinality(PipelinesInFlight) <= 1
  /\ Cardinality({i \in 1..Len(statusFetches) :
                    statusFetches[i].owner = "refresh"}) <= 1

\* no trigger of the debounced update has fired while an update was in flight
NoTriggerWhileInFlight == tally.busyFires = 0 /\ tally.busyRuns = 0

\* C2: notifications delivered within one debounce window while no refresh is
\* in flight cause exactly one execution of _updateChangedPaths, started when
\* the window closes and never by a notification itself, and that execution
\* issues at most one targeted status fetch.
OneExecutionPerWindow ==
  NoTriggerWhileInFlight =>
    /\ tally.runs = tally.idleFires
    /\ tally.idleFires = tally.windows - (IF changedPathsTimer THEN 1 ELSE 0)
    /\ tally.statusCalls["changedPaths"] <= tally.runs

\* C2 witness: three notifications in a single window, one execution
ThreeNotificationsOneExecution ==
  /\ NoTriggerWhileInFlight
  /\ tally.notifications = 3 /\ tally.windows = 1
  /\ ~changedPathsTimer /\ tally.runs = 1

\* C3: however many triggers fire while a refresh is in flight, exactly one
\* additional refresh runs after it completes, and it receives every path
\* notified since the previous drain.
OneFollowUpWithUnion ==
  /\ tally.runs = tally.idleFires + tally.busyRuns
  /\ lastBatch.cause = "scheduled" =>
       \A p \in NotifiedPaths : Count(lastBatch.batch, p) = lastBatch.owed[p]

\* C3 witness: a follow-up run after two triggers, its batch holding both
\* notifications
FollowUpAfterTwoTriggers ==
  /\ lastBatch.cause = "scheduled"
  /\ lastBatch.triggers >= 2
  /\ Len(lastBatch.batch) >= 2

\* C4: every notified path is handed to exactly one execution of
\* _updateChangedPaths or is still pending, a failing refresh included, and
\* pending paths always have an execution armed or scheduled.
NoPathLostOrRepeated ==
  /\ \A p \in NotifiedPaths :
       tally.delivered[p] = tally.processed[p] + Count(toUpdateChangedPaths, p)
  /\ toUpdateChangedPaths # <<>> => changedPathsTimer \/ changedPathsScheduled

\* C4 witness: a path notified twice was handed over twice, nothing is
\* pending, and a refresh has failed
PathHandedOverAfterFailure ==
  /\ tally.failures >= 1
  /\ toUpdateChangedPaths = <<>>
  /\ \E p \in NotifiedPaths : tally.delivered[p] >= 2 /\ tally.processed[p] >= 2

\* the relevant paths of the batch an execution has just drained
RelevantOfBatch == SelectSeq(lastBatch.batch, isPathRelevant)

\* the execution that has just started issued the targeted fetch
StartedTargeted ==
  \E i \in 1..Len(statusFetches) :
    /\ statusFetches[i].owner = "changedPaths"
    /\ statusFetches[i].options = ALL_STATUSES
    /\ statusFetches[i].paths = RelevantOfBatch

\* the execution that has just started invoked the full refresh
StartedFull == refreshTimer /\ ~AwaitsStatuses(Now, "changedPaths")

\* C5 as stated: a refresh is targeted exactly when the number of pending
\* relevant paths is strictly below MAX_INDIVIDUAL_CHANGED_PATHS, and full
\* otherwise, so a batch of one relevant path is a full refresh.
TargetedStrictlyBelowThreshold ==
  (lastBatch.cause # "none" /\ Len(RelevantOfBatch) > 0) =>
    IF Len(RelevantOfBatch) < MAX_INDIVIDUAL_CHANGED_PATHS
    THEN StartedTargeted
    ELSE StartedFull

\* C5: a refresh is targeted exactly when the number of pending relevant
\* paths is at least one and at most MAX_INDIVIDUAL_CHANGED_PATHS, full when
\* it is above, and a batch without relevant paths starts no refresh.
TargetedUpToThreshold ==
  lastBatch.cause # "none" =>
    IF Len(RelevantOfBatch) = 0
    THEN ~AwaitsStatuses(Now, "changedPaths") /\ changedPathsCall.pc = "idle"
    ELSE IF Len(RelevantOfBatch) <= MAX_INDIVIDUAL_CHANGED_PATHS
    THEN StartedTargeted
    ELSE StartedFull

\* C5 witness: a batch of exactly MAX_INDIVIDUAL_CHANGED_PATHS relevant paths
\* started a targeted fetch
ThresholdBatchIsTargeted ==
  /\ lastBatch.cause # "none"
  /\ Len(RelevantOfBatch) = MAX_INDIVIDUAL_CHANGED_PATHS
  /\ StartedTargeted

\* a burst: every notification so far fell into one debounce window, both
\* relevant files were among them, and the repository state did not change
BurstOfRelevantPaths ==
  /\ tally.windows = 1
  /\ tally.repoStateChanges = 0
  /\ \A f \in RelevantFiles : tally.delivered[f] >= 1

\* C6: a burst of notifications for more than MAX_INDIVIDUAL_CHANGED_PATHS
\* distinct relevant paths in one window results in exactly one full refresh,
\* one cache clear and one whole-project fetch of the non-ignored statuses,
\* and no targeted all-statuses fetch.
BurstIsOneFullRefresh ==
  BurstOfRelevantPaths =>
    /\ tally.statusCalls["changedPaths"] = 0
    /\ tally.fullRuns <= 1
    /\ tally.statusCalls["refresh"] = tally.fullRuns
    /\ \A i \in 1..Len(statusFetches) :
         /\ statusFetches[i].paths = <<ProjectDirectory>>
         /\ statusFetches[i].options = ONLY_NON_IGNORED
    /\ (Quiet /\ tally.failures = 0) => tally.fullRuns = 1

\* C6 witness: the burst has been served by its one full refresh
BurstServed ==
  /\ BurstOfRelevantPaths /\ Quiet /\ tally.failures = 0
  /\ tally.fullRuns = 1 /\ tally.statusCalls["refresh"] = 1

\* the cache agrees with the true status of f
CacheAgrees(f) ==
  IF truth[f] \in {CLEAN, NoFile}
  THEN f \notin DOMAIN hgStatusCache
  ELSE f \in DOMAIN hgStatusCache /\ hgStatusCache[f] = truth[f]

\* C7: once notifications have stopped, no backend call has failed and every
\* refresh has completed, the cached status of every notified relevant path
\* equals its true status (absent exactly when the true status is CLEAN).
NotifiedPathsConverge ==
  (Quiet /\ tally.failures = 0) =>
    \A f \in RelevantFiles : tally.fresh[f] => CacheAgrees(f)

\* C8: when a fetch covering a path completes after a fetch issued later for
\* the same path has already completed, the cache keeps the status the later
\* fetch established.
NoStaleOverwrite ==
  \A f \in DOMAIN lastUpdate.superseded :
    getCachedPathStatusOf(lastUpdate.after, f) = lastUpdate.superseded[f]

\* C9: no entry of the status cache has the value CLEAN; a path whose fetched
\* status is CLEAN is removed from the cache.
CleanNeverCached ==
  /\ \A f \in DOMAIN hgStatusCache : hgStatusCache[f] # CLEAN
  /\ \A f \in DOMAIN lastUpdate.reply :
       lastUpdate.reply[f] = CLEAN => f \notin DOMAIN hgStatusCache

\* C9 witness: an update fetched CLEAN for a cached path and removed it
CleanReplyRemovedEntry ==
  \E f \in DOMAIN lastUpdate.reply :
    /\ lastUpdate.reply[f] = CLEAN
    /\ f \in DOMAIN lastUpdate.before
    /\ f \notin DOMAIN hgStatusCache

\* the paths a completed update could have touched
UpdatedPaths == DOMAIN lastUpdate.reply \cup lastUpdate.queried

\* the did-change-status events a completed update emitted
StatusEvents ==
  SelectSeq(lastUpdate.events, LAMBDA e : e.type = "did-change-status")

\* the update announced a did-change-status event for f
Announced(f) == \E i \in 1..Len(StatusEvents) : StatusEvents[i].path = f

\* the update changed the cached status of f
CacheChanged(f) ==
  getCachedPathStatusOf(lastUpdate.before, f)
    # getCachedPathStatusOf(lastUpdate.after, f)

\* C10 as stated: for every completed status update and every path it
\* touched, a did-change-status event is emitted if and only if the cached
\* status differs before and after, evicted paths included.
EventIffCacheChanged ==
  \A f \in UpdatedPaths : Announced(f) <=> CacheChanged(f)

\* C10: for every path in the backend's result an event carrying the new
\* status is emitted if and only if the cached status differs before and
\* after; a queried path absent from the result is never announced, although
\* its eviction changes the cached status.
EventIffReplyChangedCache ==
  /\ \A f \in DOMAIN lastUpdate.reply : Announced(f) <=> CacheChanged(f)
  /\ \A f \in UpdatedPaths \ DOMAIN lastUpdate.reply : ~Announced(f)
  /\ \A i \in 1..Len(StatusEvents) :
       LET e == StatusEvents[i]
       IN /\ e.path \in DOMAIN lastUpdate.reply
          /\ e.pathStatus = StatusCodeIdToNumber(lastUpdate.reply[e.path])
          /\ e.pathStatus = getCachedPathStatusOf(lastUpdate.after, e.path)

\* C10 witness: an update announced one path and silently evicted another
AnnouncedAndSilentlyEvicted ==
  /\ \E f \in DOMAIN lastUpdate.reply : Announced(f) /\ CacheChanged(f)
  /\ \E f \in lastUpdate.queried \ DOMAIN lastUpdate.reply :
       CacheChanged(f) /\ ~Announced(f)

\* C11: within one status update no event is emitted before every cache
\* mutation of the update (status cache and directory index, evictions
\* included) has been applied; the path-level events come first and exactly
\* one did-change-statuses event comes last, so a handler reading the cache
\* sees the fully applied update.
EventsAfterFullUpdate ==
  lastUpdate.queried # {} =>
    LET obs == lastUpdate.observed
    IN /\ Len(obs) >= 1
       /\ obs[Len(obs)].event = DidChangeStatuses
       /\ \A i \in 1..(Len(obs) - 1) : obs[i].event.type = "did-change-status"
       /\ \A i \in 1..Len(obs) :
            /\ obs[i].cache = lastUpdate.after
            /\ obs[i].dirs = lastUpdate.dirsAfter

\* C11 witness: an update with two path-level events that also changed the
\* directory index
TwoEventsAndDirectoriesChanged ==
  /\ Len(StatusEvents) >= 2
  /\ lastUpdate.dirsAfter # lastUpdate.dirsBefore

\* the coarse events a completed update emitted
CoarseEvents ==
  SelectSeq(lastUpdate.events, LAMBDA e : e.type = "did-change-statuses")

\* C12 as stated: every completed status update call emits a coarse
\* did-change-statuses event, an update whose requested paths are all outside
\* the project included.
EveryUpdateEmitsCoarse ==
  lastUpdate.owner # "none" => Len(CoarseEvents) >= 1

\* C12: a status update call that has at least one requested path inside the
\* project emits exactly one did-change-statuses event when it completes, also
\* with zero path-level events; a call whose requested paths are all outside
\* the project returns at once without a backend call and without any event.
CoarseEventUnlessNothingRelevant ==
  lastUpdate.owner # "none" =>
    IF SelectSeq(lastUpdate.requested, isPathRelevant) = <<>>
    THEN /\ lastUpdate.events = <<>>
         /\ ~AwaitsStatuses(Now, lastUpdate.owner)
    ELSE /\ Len(CoarseEvents) = 1
         /\ lastUpdate.events[Len(lastUpdate.events)] = DidChangeStatuses

\* C12 witness: an update that reached the backend changed nothing and still
\* emitted the coarse event
CoarseEventAlone ==
  /\ lastUpdate.queried # {}
  /\ lastUpdate.after = lastUpdate.before
  /\ lastUpdate.events = <<DidChangeStatuses>>

\* the directories between a relevant file and the project boundary
Directories ==
  UNION {ParentDirectories(f, GetParent(ProjectDirectory)) : f \in RelevantFiles}

\* the MODIFIED entries of a status cache below directory d
ModifiedBelow(cache, d) ==
  {f \in DOMAIN cache :
     /\ cache[f] = MODIFIED
     /\ d \in ParentDirectories(f, GetParent(ProjectDirectory))}

\* the reference count of directory d in a directory index
CountOf(dirs, d) == IF d \in DOMAIN dirs THEN dirs[d] ELSE 0

\* C13: getDirectoryStatus(d) reports MODIFIED if and only if the status
\* cache holds at least one MODIFIED path below d; no directory reports
\* MODIFIED once all its modified descendants have cleared.
DirectoryIndexMatchesCache ==
  \A d \in Directories :
    getDirectoryStatusOf(modifiedDirectoryCache, d) = StatusCodeNumberMODIFIED
      <=> ModifiedBelow(hgStatusCache, d) # {}

\* C14: in a status update the reference count of every directory changes by
\* the number of descendants that entered MODIFIED minus the number that left
\* it, once per transition; a change between two statuses other than MODIFIED
\* leaves every count unchanged.
CountsFollowModifiedTransitions ==
  lastUpdate.queried # {} =>
    \A d \in Directories :
      CountOf(lastUpdate.dirsAfter, d) - CountOf(lastUpdate.dirsBefore, d)
        = Cardinality(ModifiedBelow(lastUpdate.after, d))
            - Cardinality(ModifiedBelow(lastUpdate.before, d))

\* the targeted refresh that has just completed found f, cached as MODIFIED,
\* to be CLEAN
ModifiedResolvedClean(f) ==
  /\ lastUpdate.owner = "changedPaths"
  /\ f \in lastUpdate.queried
  /\ f \in DOMAIN lastUpdate.before /\ lastUpdate.before[f] = MODIFIED
  /\ f \in DOMAIN lastUpdate.reply /\ lastUpdate.reply[f] = CLEAN

\* C15: when a notified path cached as MODIFIED is resolved to CLEAN, the
\* refresh removes it from the status cache, decrements (removing at zero)
\* each of its ancestor directory entries, emits did-change-status for the
\* path with status CLEAN and then the coarse did-change-statuses event.
ModifiedToCleanIsRemovedAndAnnounced ==
  \A f \in RelevantFiles :
    ModifiedResolvedClean(f) =>
      /\ f \notin DOMAIN lastUpdate.after
      /\ \A d \in ParentDirectories(f, GetParent(ProjectDirectory)) :
           CountOf(lastUpdate.dirsAfter, d)
             = IF CountOf(lastUpdate.dirsBefore, d) > 0
               THEN CountOf(lastUpdate.dirsBefore, d) - 1 ELSE 0
      /\ lastUpdate.events
           = <<DidChangeStatus(f, StatusCodeNumberCLEAN), DidChangeStatuses>>

\* C15 witness: such a refresh took the last reference to the project
\* directory out of the index
ModifiedToCleanClearedDirectory ==
  \E f \in RelevantFiles :
    /\ ModifiedResolvedClean(f)
    /\ CountOf(lastUpdate.dirsBefore, ProjectDirectory) = 1
    /\ ProjectDirectory \notin DOMAIN lastUpdate.dirsAfter

\* what the same getStatuses call would do if it were made again now
RepeatedGet == getStatuses(Now, lastGet.paths, lastGet.options)

\* C16: a getStatuses call repeated with the same arguments, with no
\* notification or backend change in between, returns the identical map and
\* issues no backend fetchStatuses call, also for requested paths whose
\* status is CLEAN.
RepeatedGetStatusesHitsCache ==
  (lastGet.returned /\ statusFetches = <<>>) =>
    /\ RepeatedGet.statusFetches = <<>>
    /\ RepeatedGet.lastGet.returned
    /\ RepeatedGet.lastGet.result = lastGet.result

\* the filter predicate an option selects
SatisfiesFilter(options, code) ==
  IF options = ONLY_IGNORED THEN code = IGNORED
  ELSE IF options = ALL_STATUSES THEN TRUE
  ELSE code # IGNORED

\* the backend calls the getStatuses call has outstanding
OwnFetches ==
  SelectSeq(statusFetches, LAMBDA c : c.owner = "getStatuses")

\* C17: one getStatuses call issues at most one backend fetchStatuses call,
\* whose path list is exactly the requested relevant paths without a cached
\* status; a requested path with a cached status is never sent to the backend
\* and is returned from the cache if and only if its cached status satisfies
\* the selected filter predicate.
GetStatusesFetchesOnlyMisses ==
  /\ tally.statusCalls["getStatuses"] <= tally.getStatuses
  /\ lastGet.called =>
       LET misses == SelectSeq(lastGet.paths,
                       LAMBDA f : isPathRelevant(f) /\ f \notin DOMAIN hgStatusCache)
           cached == Range(lastGet.paths) \cap DOMAIN hgStatusCache
           passing == {f \in cached : SatisfiesFilter(lastGet.options, hgStatusCache[f])}
       IN /\ Len(OwnFetches) = IF misses = <<>> THEN 0 ELSE 1
          /\ \A i \in 1..Len(OwnFetches) :
               /\ OwnFetches[i].paths = misses
               /\ OwnFetches[i].options = lastGet.options
          /\ lastGet.statusMap
               = [f \in passing |-> StatusCodeIdToNumber(hgStatusCache[f])]
          /\ lastGet.skipped = cached \ passing
  /\ lastGet.returned =>
       /\ \A f \in DOMAIN lastGet.statusMap :
            f \in DOMAIN lastGet.result /\ lastGet.result[f] = lastGet.statusMap[f]
       /\ \A f \in lastGet.skipped : f \notin DOMAIN lastGet.result

\* C17 witness: a call found one requested path cached with a status that
\* passes the filter only under the selected option, and sent the other path
\* to the backend
GetStatusesHitAndMiss ==
  /\ lastGet.called /\ ~lastGet.returned
  /\ lastGet.options = ALL_STATUSES
  /\ \E f \in DOMAIN lastGet.statusMap : lastGet.statusMap[f] = StatusCodeIdToNumber(IGNORED)
  /\ Len(OwnFetches) = 1 /\ Len(OwnFetches[1].paths) = 1

\* the queried paths the backend's result does not list
AbsentFromReply == lastUpdate.queried \ DOMAIN lastUpdate.reply

\* C18: in a status update scoped to only-ignored, every queried path cached
\* as IGNORED and absent from the backend result is evicted from the status
\* cache without a did-change-status event, and queried paths cached with any
\* other status are left untouched.
OnlyIgnoredEvictsIgnored ==
  (lastUpdate.queried # {} /\ lastUpdate.options = ONLY_IGNORED) =>
    /\ \A f \in AbsentFromReply \cap DOMAIN lastUpdate.before :
         IF lastUpdate.before[f] = IGNORED
         THEN f \notin DOMAIN lastUpdate.after /\ ~Announced(f)
         ELSE /\ f \in DOMAIN lastUpdate.after
              /\ lastUpdate.after[f] = lastUpdate.before[f]
    /\ lastUpdate.dirsAfter = lastUpdate.dirsBefore

\* C18 witness: an only-ignored update evicted a path cached as IGNORED
OnlyIgnoredEvicted ==
  /\ lastUpdate.options = ONLY_IGNORED
  /\ \E f \in AbsentFromReply :
       /\ f \in DOMAIN lastUpdate.before /\ lastUpdate.before[f] = IGNORED
       /\ f \notin DOMAIN lastUpdate.after

\* the queried paths cached as MODIFIED below directory d before the update
ModifiedQueriedBelow(d) == ModifiedBelow(lastUpdate.before, d) \cap lastUpdate.queried

\* C19: in a status update scoped to all-statuses, every queried path absent
\* from the backend result is evicted from the status cache whatever its
\* cached status, and for each one cached as MODIFIED the reference counts of
\* its ancestor directories are decremented exactly once.
AllStatusesEvictsAbsent ==
  (lastUpdate.queried # {} /\ lastUpdate.options = ALL_STATUSES) =>
    /\ \A f \in AbsentFromReply : f \notin DOMAIN lastUpdate.after
    /\ lastUpdate.reply = EmptyMap =>
         \A d \in Directories :
           CountOf(lastUpdate.dirsAfter, d)
             = IF CountOf(lastUpdate.dirsBefore, d)
                    > Cardinality(ModifiedQueriedBelow(d))
               THEN CountOf(lastUpdate.dirsBefore, d)
                      - Cardinality(ModifiedQueriedBelow(d))
               ELSE 0

\* C19 witness: an all-statuses update evicted a path cached as MODIFIED and
\* took its reference out of the project directory's count
AllStatusesEvictedModified ==
  /\ lastUpdate.options = ALL_STATUSES
  /\ \E f \in AbsentFromReply :
       /\ f \in DOMAIN lastUpdate.before /\ lastUpdate.before[f] = MODIFIED
       /\ f \notin DOMAIN lastUpdate.after
  /\ CountOf(lastUpdate.dirsAfter, ProjectDirectory)
       < CountOf(lastUpdate.dirsBefore, ProjectDirectory)

\* the outstanding fetchDiffInfo calls whose argument contains f
DiffFetchesOf(f) == {c \in diffFetches : f \in Range(c.paths)}

\* C20: at any moment a path is in the argument of at most one outstanding
\* fetchDiffInfo call; a request for a path that is already in the updating
\* set causes no second fetch for it, and a path repeated within one request
\* is fetched once.
DiffFetchesAreDeduplicated ==
  /\ \A f \in RelevantFiles :
       /\ Cardinality(DiffFetchesOf(f)) <= 1
       /\ DiffFetchesOf(f) # {} => f \in hgDiffCacheFilesUpdating
  /\ \A c \in diffFetches : \A f \in Range(c.paths) : Count(c.paths, f) = 1
  /\ lastDiff.called =>
       /\ \A f \in lastDiff.updating : f \notin Range(lastDiff.pathsToFetch)
       /\ \A f \in Range(lastDiff.requested) :
            (isPathRelevant(f) /\ f \notin lastDiff.updating)
              => Count(lastDiff.pathsToFetch, f) = 1

\* C20 witness: a request named a path whose fetch was outstanding and did
\* not fetch it again
DuplicateDiffRequestSuppressed ==
  /\ lastDiff.called
  /\ \E f \in Range(lastDiff.requested) :
       /\ f \in lastDiff.updating
       /\ DiffFetchesOf(f) # {}
       /\ f \notin Range(lastDiff.pathsToFetch)


\* C21: in every state the updating set is exactly the set of paths with an
\* outstanding fetchDiffInfo call: a call that returned a map, returned null
\* or was rejected has had all its paths removed, so no path is starved
OutstandingDiffPaths == UNION {Range(c.paths) : c \in diffFetches}
UpdatingIsOutstanding == hgDiffCacheFilesUpdating = OutstandingDiffPaths


\* C22: a path is never deleted from the diff cache in a step after which a
\* fetchDiffInfo call for that path is still outstanding: the removal queued
\* by an editor close waits for the completion of the path's own fetch, also
\* when the fetch that completes is one for other paths
NoDeletionMidFetch ==
  [][\A f \in RelevantFiles :
       (f \in DOMAIN hgDiffCache /\ f \in OutstandingDiffPaths')
         => f \in DOMAIN hgDiffCache']_vars


\* the did-change-statuses events the last handler emitted
CoarseEmitted == SelectSeq(emitted, LAMBDA e : e.type = "did-change-statuses")

\* the last handler called _updateDiffInfo for an editor or a direct caller and
\* every requested path was filtered out
DiffCallFilteredOut ==
  /\ lastDiff.called
  /\ lastDiff.owner \in {"editor", "caller"}
  /\ lastDiff.pathsToFetch = <<>>

\* C23 as stated: every _updateDiffInfo call that completes, a call whose
\* paths were all filtered out included, emits exactly one coarse event
EveryDiffCallEmitsCoarse ==
  (lastDiff.resumed \/ DiffCallFilteredOut) => Len(CoarseEmitted) = 1

\* C23: an _updateDiffInfo call that resumes from its backend fetch emits
\* exactly one coarse event, and the listener sees the results merged, the
\* queued removals applied and the in-flight markers of the call cleared; a
\* call whose paths were all filtered out emits nothing
DiffCallEmitsCoarseAfterSettling ==
  /\ lastDiff.resumed =>
       /\ emitted = <<DidChangeStatuses>>
       /\ Len(lastDiff.observed) = 1
       /\ LET seen == lastDiff.observed[1]
          IN /\ \A f \in DOMAIN lastDiff.reply \ lastDiff.toClear :
                  /\ f \in DOMAIN seen.hgDiffCache
                  /\ seen.hgDiffCache[f] = lastDiff.reply[f]
             /\ DOMAIN seen.hgDiffCache \cap lastDiff.toClear = {}
             /\ seen.hgDiffCacheFilesToClear = {}
             /\ seen.hgDiffCacheFilesUpdating \cap Range(lastDiff.fetched) = {}
             /\ seen.hgDiffCache = hgDiffCache
  /\ DiffCallFilteredOut => emitted = <<>>

\* a call resumed with a result to merge and a removal to apply
DiffCallSettledWithRemoval ==
  /\ lastDiff.resumed
  /\ DOMAIN lastDiff.reply # {}
  /\ lastDiff.toClear # {}


\* C24: a step in which the synchronous getters are called issues no backend
\* call, emits no event and leaves every cache unchanged, and each getter
\* returns the cached value of the path, or the zero value (CLEAN, no added
\* and no deleted lines, no line diffs) for a path that is not in its cache
GettersAreCacheOnly ==
  [][lastRead'.called =>
       /\ UNCHANGED <<hgStatusCache, modifiedDirectoryCache, hgDiffCache,
                      hgDiffCacheFilesUpdating, hgDiffCacheFilesToClear,
                      statusFetches, diffFetches, changedPathsTimer,
                      refreshTimer, changedPathsCall, refreshCall>>
       /\ emitted' = <<>>
       /\ LET f == lastRead'.path
          IN /\ lastRead'.pathStatus =
                  IF f \in DOMAIN hgStatusCache
                  THEN StatusCodeIdToNumber(hgStatusCache[f])
                  ELSE StatusCodeNumberCLEAN
             /\ DOMAIN lastRead'.allPathStatuses = DOMAIN hgStatusCache
             /\ \A g \in DOMAIN hgStatusCache :
                  lastRead'.allPathStatuses[g] =
                    StatusCodeIdToNumber(hgStatusCache[g])
             /\ lastRead'.directoryStatus =
                  IF f \in DOMAIN modifiedDirectoryCache
                  THEN StatusCodeNumberMODIFIED ELSE StatusCodeNumberCLEAN
             /\ lastRead'.diffStats =
                  IF f \in DOMAIN hgDiffCache
                  THEN [added |-> hgDiffCache[f].added,
                        deleted |-> hgDiffCache[f].deleted]
                  ELSE [added |-> 0, deleted |-> 0]
             /\ lastRead'.lineDiffs =
                  IF f \in DOMAIN hgDiffCache THEN hgDiffCache[f].lineDiffs
                  ELSE <<>>]_vars

\* the getters were called for a path without entries while the status cache,
\* the diff cache and the directory index all hold entries of other paths
GettersCalledOnUnknownPath ==
  /\ lastRead.called
  /\ lastRead.path \in RelevantFiles
  /\ lastRead.path \notin DOMAIN hgStatusCache \cup DOMAIN hgDiffCache
  /\ DOMAIN hgStatusCache # {} /\ DOMAIN hgDiffCache # {}
  /\ DOMAIN modifiedDirectoryCache # {}
  /\ lastRead.diffStats = [added |-> 0, deleted |-> 0]


\* C25: refreshStatus goes through the coordinator of the repository-state
\* notifications: called while the debounce window of the full refresh is open
\* it issues no status fetch of its own, and its status fetch is never
\* outstanding together with the status fetch of a full refresh
RefreshStatusSharesCoordinator ==
  /\ (lastGet.called /\ refreshTimer) => ~AwaitsStatuses(Now, "getStatuses")
  /\ ~(AwaitsStatuses(Now, "getStatuses") /\ AwaitsStatuses(Now, "refresh"))


\* C26: when a commit or amend finishes, with or without an error, the status
\* cache, the diff cache and the modified-directory index are empty, so that
\* getCachedPathStatus and getDirectoryStatus report CLEAN for every path, and
\* exactly one coarse event is emitted
CommitClearsWholeClientCache ==
  [][tally'.commits > tally.commits =>
       /\ hgStatusCache' = EmptyMap
       /\ hgDiffCache' = EmptyMap
       /\ modifiedDirectoryCache' = EmptyMap
       /\ \A f \in ReadPaths :
            /\ getCachedPathStatusOf(hgStatusCache', f) = StatusCodeNumberCLEAN
            /\ getDirectoryStatusOf(modifiedDirectoryCache', f)
                 = StatusCodeNumberCLEAN
       /\ emitted' = <<DidChangeStatuses>>]_vars


\* the fields of the client and its coordinators, without the history
clientState ==
  <<hgStatusCache, modifiedDirectoryCache, hgDiffCache, hgDiffCacheFilesUpdating,
    hgDiffCacheFilesToClear, editorSubscriptions, isDestroyed,
    subscriptionsDisposed, revisionIdToFileChanges, fileContentsAtRevisionIds,
    revisionCalls, activeBookmark, bookmarkFetches,
    toUpdateChangedPaths, changedPathsTimer, changedPathsScheduled,
    changedPathsCall, refreshTimer, refreshScheduled, refreshCall,
    statusFetches, diffFetches, getStatusesCall>>

\* C27: a destroy call on a destroyed client changes no state and emits no
\* event; did-destroy is emitted at most once over the lifetime of the client
\* and isDestroyed never goes back to false
DestroyIsIdempotent ==
  [][/\ (lastDestroy'.called /\ isDestroyed) =>
          /\ UNCHANGED clientState
          /\ emitted' = <<>>
     /\ tally'.didDestroy <= 1
     /\ isDestroyed => isDestroyed']_vars

\* destroy was called on a client that an earlier destroy had torn down
DestroyedTwice ==
  /\ lastDestroy.called
  /\ lastDestroy.wasDestroyed
  /\ isDestroyed
  /\ tally.didDestroy = 1


\* C28: on a destroyed client, a step in which a debounce timer fires or a
\* status or diff fetch is answered leaves the status cache, the
\* modified-directory index, the diff cache and the updating set unchanged,
\* issues no backend call and delivers no event
PendingWorkIsNoOpAfterDestroy ==
  [][(/\ isDestroyed
      /\ \/ changedPathsTimer /\ ~changedPathsTimer'
         \/ refreshTimer /\ ~refreshTimer'
         \/ statusFetches' # statusFetches
         \/ diffFetches' # diffFetches)
       => /\ UNCHANGED <<hgStatusCache, modifiedDirectoryCache, hgDiffCache,
                         hgDiffCacheFilesUpdating>>
          /\ tally'.statusCalls = tally.statusCalls
          /\ tally'.diffCalls = tally.diffCalls
          /\ DeliveredEvents' = <<>>]_vars


\* C29: in the state in which destroy returns, the status cache, the
\* modified-directory index, the diff cache with its updating and to-clear
\* sets, and both revision caches are empty
CachesEmptyAfterDestroy ==
  lastDestroy.called =>
    /\ hgStatusCache = EmptyMap
    /\ modifiedDirectoryCache = EmptyMap
    /\ hgDiffCache = EmptyMap
    /\ hgDiffCacheFilesUpdating = {}
    /\ hgDiffCacheFilesToClear = {}
    /\ revisionIdToFileChanges = EmptyMap
    /\ fileContentsAtRevisionIds = EmptyMap


\* a coordinator is in its Refreshing state only while the call it runs waits
\* for an outstanding backend call or for a refresh that is still to settle
RefreshingOnlyWhileWaiting ==
  /\ changedPathsCall.pc # "idle" =>
       \/ AwaitsStatuses(Now, "changedPaths")
       \/ AwaitsDiffInfo(Now, "changedPaths")
       \/ /\ changedPathsCall.pc = "refresh"
          /\ refreshCall.pc # "idle" \/ refreshScheduled
  /\ refreshCall.pc # "idle" =>
       AwaitsStatuses(Now, "refresh") \/ AwaitsDiffInfo(Now, "refresh")

\* the status calls issued so far by the two refreshes
RefreshStatusCalls ==
  tally.statusCalls["changedPaths"] + tally.statusCalls["refresh"]

\* C30: a failed backend status call of a targeted or full refresh leaves no
\* coordinator in its Refreshing state; a notification that arrives after the
\* failure arms the debounce, and when the delay elapses on the idle
\* coordinator a new execution starts, with a new backend call for a batch of
\* relevant paths
CoordinatorRetriesAfterFailure ==
  [][/\ RefreshingOnlyWhileWaiting'
     /\ (tally.failures > 0 /\ tally'.notifications > tally.notifications)
          => changedPathsTimer'
     /\ (/\ tally.failures > 0
         /\ changedPathsTimer /\ ~changedPathsTimer'
         /\ changedPathsCall.pc = "idle")
          => /\ tally'.runs = tally.runs + 1
             /\ lastBatch'.branch = "targeted"
                  => RefreshStatusCalls' = RefreshStatusCalls + 1
             /\ lastBatch'.branch = "full" => refreshTimer']_vars

\* after a failed status call, a later notification has led to a new targeted
\* execution whose backend call is outstanding
RetriedAfterFailure ==
  /\ tally.notifiedSinceFailure
  /\ lastBatch.cause = "timer"
  /\ lastBatch.branch = "targeted"
  /\ AwaitsStatuses(Now, "changedPaths")


\* C31: in the step in which the status call of a targeted or full refresh is
\* rejected, and no following full refresh starts, the status cache, the
\* modified-directory index and the diff cache are left as they are, no event
\* is emitted and no diff call is issued: the refresh ends without its diff
\* re-fetch step
FailedRefreshAborts ==
  [][(/\ tally'.failures > tally.failures
      /\ getStatusesCall' = getStatusesCall
      /\ tally'.fullRuns = tally.fullRuns)
       => /\ UNCHANGED <<hgStatusCache, modifiedDirectoryCache, hgDiffCache>>
          /\ emitted' = <<>>
          /\ tally'.diffCalls = tally.diffCalls
          /\ diffFetches' = diffFetches]_vars

\* the status call of a refresh failed while the diff cache held an entry of a
\* path the refresh would have re-fetched
RefreshFailedWithDiffInfoCached ==
  /\ tally.statusFailed
  /\ tally.failures = 1
  /\ statusFetches = <<>>
  /\ changedPathsCall = IdleCall /\ refreshCall = IdleCall
  /\ FileA \in DOMAIN hgDiffCache
  /\ tally.runs = 1


\* C32: no getStatuses or refreshStatus call ends with a rejected promise, and
\* no _updateDiffInfo call started by an editor save or by a refresh ends with
\* one: a failed backend call gives the caller a result without updates
NoRejectionReachesCaller ==
  /\ ~lastGet.rejected
  /\ ~lastDiff.rejected


\* the path lies in the project directory, or is the project directory
InProject(f) == f = ProjectDirectory \/ IsPrefix(ProjectDirectory, f)

\* C33: no outstanding fetchStatuses or fetchDiffInfo call holds a path outside
\* the project directory; a getStatuses, _updateStatuses or _updateDiffInfo
\* call whose paths all lie outside issues no backend call and has an empty
\* result
OnlyProjectPathsReachBackend ==
  /\ \A i \in 1..Len(statusFetches) :
       \A f \in Range(statusFetches[i].paths) : InProject(f)
  /\ \A c \in diffFetches : \A f \in Range(c.paths) : InProject(f)
  /\ (lastGet.called /\ \A f \in Range(lastGet.paths) : ~InProject(f))
       => /\ lastGet.returned /\ lastGet.result = EmptyMap
          /\ ~AwaitsStatuses(Now, "getStatuses")
  /\ (lastUpdate.owner # "none"
        /\ \A f \in Range(lastUpdate.requested) : ~InProject(f))
       => lastUpdate.queried = {} /\ lastUpdate.reply = EmptyMap
  /\ (lastDiff.called /\ \A f \in Range(lastDiff.requested) : ~InProject(f))
       => lastDiff.pathsToFetch = <<>>

\* a status call and a diff call are outstanding whose requests also named a
\* path outside the project, and a notified batch with such a path was refreshed
OutsidePathsWereDropped ==
  /\ \E i \in 1..Len(statusFetches) :
       /\ statusFetches[i].owner = "getStatuses"
       /\ Outside \in Range(statusFetches[i].requested)
       /\ statusFetches[i].paths = <<FileA>>
  /\ \E c \in diffFetches : c.paths = <<FileA>> /\ c.owner = "caller"
  /\ tally.delivered[Outside] > 0 /\ tally.processed[Outside] > 0


\* C34: a lookup of a revision's changed files, or of a path's contents at a
\* revision, whose value the cache holds returns that value and calls the
\* service for nothing; and a value the cache holds stays there, unchanged,
\* in every step but a destroy
RevisionLookupsAreMemoized ==
  [][/\ (/\ lastLookup'.called /\ lastLookup'.kind = "changes"
         /\ lastLookup'.revision \in DOMAIN revisionIdToFileChanges)
          => /\ lastLookup'.hit
             /\ lastLookup'.value = revisionIdToFileChanges[lastLookup'.revision]
             /\ UNCHANGED <<revisionCalls, revisionIdToFileChanges>>
             /\ tally'.revisionFetches = tally.revisionFetches
     /\ (/\ lastLookup'.called /\ lastLookup'.kind = "content"
         /\ lastLookup'.revision \in DOMAIN fileContentsAtRevisionIds
         /\ lastLookup'.filePath
              \in DOMAIN fileContentsAtRevisionIds[lastLookup'.revision])
          => /\ lastLookup'.hit
             /\ lastLookup'.value =
                  fileContentsAtRevisionIds[lastLookup'.revision][lastLookup'.filePath]
             /\ UNCHANGED <<revisionCalls, fileContentsAtRevisionIds>>
             /\ tally'.revisionFetches = tally.revisionFetches
     /\ ~lastDestroy'.called
          => /\ \A r \in DOMAIN revisionIdToFileChanges :
                  /\ r \in DOMAIN revisionIdToFileChanges'
                  /\ revisionIdToFileChanges'[r] = revisionIdToFileChanges[r]
             /\ \A r \in DOMAIN fileContentsAtRevisionIds :
                  \A f \in DOMAIN fileContentsAtRevisionIds[r] :
                    /\ r \in DOMAIN fileContentsAtRevisionIds'
                    /\ f \in DOMAIN fileContentsAtRevisionIds'[r]
                    /\ fileContentsAtRevisionIds'[r][f]
                         = fileContentsAtRevisionIds[r][f]]_vars

\* the contents of a path at a revision were looked up and found in the cache,
\* which also holds the changed files of the revision; the service was asked
\* once for each
RevisionLookupHit ==
  /\ lastLookup.called /\ lastLookup.hit
  /\ lastLookup.kind = "content"
  /\ lastLookup.value \in RevisionValues
  /\ DOMAIN revisionIdToFileChanges # {}
  /\ tally.revisionFetches = 2
  /\ revisionCalls = {}


\* the diff cache a full refresh finds when it starts in this step: a run the
\* coordinator chains to one that ends with its diff call sees the cache that
\* call has just written
DiffCacheAtRefreshStart ==
  IF lastDiff'.resumed
  THEN lastDiff'.observed[Len(lastDiff'.observed)].hgDiffCache
  ELSE hgDiffCache

\* a full refresh starts in this step: the three caches are emptied, one status
\* call for the project directory with the only-non-ignored filter is issued,
\* and no diff call
FullRefreshStarts ==
  tally'.fullRuns = tally.fullRuns + 1 =>
    /\ hgStatusCache' = EmptyMap
    /\ modifiedDirectoryCache' = EmptyMap
    /\ hgDiffCache' = EmptyMap
    /\ refreshCall'.paths = SeqOfSet(DOMAIN DiffCacheAtRefreshStart)
    /\ tally'.statusCalls["refresh"] = tally.statusCalls["refresh"] + 1
    /\ LET call == statusFetches'[Len(statusFetches')]
       IN /\ call.owner = "refresh"
          /\ call.paths = <<ProjectDirectory>>
          /\ call.options = ONLY_NON_IGNORED
    /\ tally'.diffCalls = tally.diffCalls

\* the status update of a full refresh is applied in this step
FullRefreshStatusesApplied ==
  /\ refreshCall.pc = "status"
  /\ lastUpdate'.owner = "refresh"

EmptyGetStatusesQueriesBackend ==
  (lastGet.called /\ lastGet.paths = <<>>)
    => /\ AwaitsStatuses(Now, "getStatuses")
       /\ ~lastGet.returned


\* C37: once a getShortHead call has missed, no later getShortHead call asks
\* the service for the active bookmark, whether the first fetch is still
\* outstanding or has ended with an empty or a rejected result
ShortHeadFetchedOnFirstMissOnly ==
  (lastShortHead.called /\ lastShortHead.earlierMisses >= 1)
    => ~lastShortHead.fetched


\* the last completed status update had the default, only-non-ignored scope
DefaultScopeUpdate ==
  /\ lastUpdate.queried # {}
  /\ getStatusOption(lastUpdate.options) \notin {ONLY_IGNORED, ALL_STATUSES}

\* C38: in a status update with the default scope, every queried path absent
\* from the backend result is evicted from the status cache unless it is
\* cached as IGNORED, which is kept; no did-change-status event is emitted for
\* such a path, and for each one cached as MODIFIED the reference counts of
\* its ancestor directories are decremented
DefaultScopeEvictsUnlessIgnored ==
  DefaultScopeUpdate =>
    /\ \A f \in AbsentFromReply :
         /\ IF f \in DOMAIN lastUpdate.before /\ lastUpdate.before[f] = IGNORED
            THEN f \in DOMAIN lastUpdate.after /\ lastUpdate.after[f] = IGNORED
            ELSE f \notin DOMAIN lastUpdate.after
         /\ ~Announced(f)
    /\ lastUpdate.reply = EmptyMap =>
         \A d \in Directories :
           CountOf(lastUpdate.dirsAfter, d)
             = IF CountOf(lastUpdate.dirsBefore, d)
                    > Cardinality(ModifiedQueriedBelow(d))
               THEN CountOf(lastUpdate.dirsBefore, d)
                      - Cardinality(ModifiedQueriedBelow(d))
               ELSE 0

\* C38 witness: a default-scope update evicted a path that had been cached as
\* MODIFIED while the update was waiting, and took its reference out of the
\* project directory's count
DefaultScopeEvictedModified ==
  /\ DefaultScopeUpdate
  /\ \E f \in AbsentFromReply :
       /\ f \in DOMAIN lastUpdate.before /\ lastUpdate.before[f] = MODIFIED
       /\ f \notin DOMAIN lastUpdate.after
  /\ CountOf(lastUpdate.dirsAfter, ProjectDirectory)
       < CountOf(lastUpdate.dirsBefore, ProjectDirectory)


\* the step completes the fetchDiffInfo call an editor's save had issued, the
\* editor of every path of the call has been closed in the meantime, and no
\* fetchDiffInfo call is outstanding afterwards
ClosedEditorsLastFetchCompletes(call) ==
  /\ call \in diffFetches /\ call \notin diffFetches'
  /\ call.owner = "editor"
  /\ lastDiff'.resumed
  /\ Range(call.paths) \cap editorSubscriptions = {}
  /\ diffFetches' = {}

\* C39: when the editor of a path has been closed and every fetchDiffInfo call
\* that was outstanding has completed since, at least one of them after the
\* close, the path has no entry in the diff cache and the to-clear set is
\* empty, whatever the order of the completions
ClosedEditorCleanupIsEffective ==
  [][\A call \in diffFetches :
       ClosedEditorsLastFetchCompletes(call) =>
         /\ Range(call.paths) \cap DOMAIN hgDiffCache' = {}
         /\ hgDiffCacheFilesToClear' = {}]_vars

====
